---- MODULE Spec2Model ----
(***************************************************************************)
(* FiveMUpdateBot (src/main.py): the update / rollback / backup-management *)
(* commands of one environment, as a state machine over the file trees     *)
(* they act on.                                                            *)
(*                                                                         *)
(* A directory is a record [ex, f]: ex says whether the directory exists,  *)
(* f maps each path below it to the content of the file there (0: no such  *)
(* file).  Directories are flattened to the files they hold, so a          *)
(* directory "exists" below a tree exactly when a path with its prefix     *)
(* holds a file.                                                           *)
(*                                                                         *)
(* DeploymentPath and DataPath have different directory names, so a backup *)
(* name belongs to one of the two: the backups beside DeploymentPath (sbk) *)
(* and those beside DataPath (dbk) are separate name spaces.  A backup     *)
(* name is a record: kind "ver" is <base>_backup_<v> (k = 0) or            *)
(* <base>_backup_<v>_<k>; kind "bak" is <base>_bak<k>.                     *)
(*                                                                         *)
(* Any step that touches the file system or the process controller may     *)
(* raise; at most MaxFaults such errors happen in one behaviour.           *)
(***************************************************************************)
EXTENDS Integers, FiniteSets, Sequences, TLC

\* ------------------------------------------------------------ bounds
MaxArtifact == 2   \* artifact ids are 1..MaxArtifact
MaxOps == 2        \* commands issued in one behaviour of Spec
MaxSeqOps == 3     \* commands issued in one behaviour of SpecSeq
MaxNameOps == 5    \* commands issued in one behaviour of SpecNames
MaxFaults == 1     \* I/O or process-control errors injected in one behaviour
MaxCacheOps == 2   \* commands issued in one behaviour of SpecCache
MaxAllOps == 2     \* commands issued in one behaviour of SpecAll
MaxRollOps == 2    \* commands issued in one behaviour of SpecRoll
MaxAge == 2        \* days up to which the age of a cached file is told apart
MaxListOps == 4    \* commands issued in one behaviour of SpecList
MaxFailOps == 2    \* commands issued in one behaviour of SpecFail
MaxCtlOps == 1     \* commands issued in one behaviour of SpecCtl
MaxConcOps == 2    \* commands issued in one behaviour of SpecConc
MaxTmpOps == 2     \* commands issued in one behaviour of SpecTmp
MaxClock == 1      \* seconds the clock advances in one behaviour of SpecTmp
MaxGateOps == 1    \* commands issued in one behaviour of SpecGate
MaxEnvOps == 1     \* commands issued in one behaviour of SpecEnv
MaxLockOps == 1    \* commands issued in one behaviour of SpecLock

\* ------------------------------------------------------------ file trees
Paths == {"a", "b", "version.txt", "d", "e",
          "ServerData/d", "ServerData/e", "server-data/d", "server-data/e"}
DataNames == {"d", "e"}

\* Content tags of files no artifact shipped.
Legacy == 0 - 1    \* a file of a manually installed tree
Cur == 0 - 2       \* operator data held in DataPath
Stale == 0 - 3     \* operator data left in DeploymentPath/ServerData

ZeroF == [p \in Paths |-> 0]
AbsentTree == [ex |-> FALSE, f |-> ZeroF]
EmptyTree == [ex |-> TRUE, f |-> ZeroF]

\* Top-level directory entry a path belongs to.
Top(p) ==
  CASE p \in {"ServerData/d", "ServerData/e"} -> "ServerData"
    [] p \in {"server-data/d", "server-data/e"} -> "server-data"
    [] OTHER -> p

\* Path of data name x below directory dir.
Under(dir, x) ==
  CASE dir = "ServerData" /\ x = "d" -> "ServerData/d"
    [] dir = "ServerData" /\ x = "e" -> "ServerData/e"
    [] dir = "server-data" /\ x = "d" -> "server-data/d"
    [] dir = "server-data" /\ x = "e" -> "server-data/e"
    [] OTHER -> x

\* Top-level entries of a directory (Path.iterdir()).
Entries(t) == IF t.ex THEN {Top(p) : p \in {q \in Paths : t.f[q] # 0}} ELSE {}

\* Faulty variant: a directory that exists counts as one with content.
ExistsOnly(t) == t.ex

\* target_path.exists() and any(target_path.iterdir())
NonEmpty(t) == t.ex /\ Entries(t) # {}

\* The subdirectory dir of tree t as a tree of its own (t / dir).
SubTree(t, dir) ==
  LET g == [p \in Paths |-> IF p \in DataNames THEN t.f[Under(dir, p)] ELSE 0]
  IN [ex |-> t.ex /\ \E x \in DataNames : t.f[Under(dir, x)] # 0, f |-> g]

\* Faulty variant: nothing is copied.
CopyNothing(src, dst, K) == dst

\* The loop "for item in src.iterdir(): copy2 / copytree(dirs_exist_ok=True)"
\* restricted to the top-level entries in K: files of src overwrite, the
\* other files of dst stay.  The destination was created by mkdir before.
CopyEntries(src, dst, K) ==
  [ex |-> TRUE,
   f |-> [p \in Paths |-> IF src.f[p] # 0 /\ Top(p) \in K THEN src.f[p] ELSE dst.f[p]]]

\* The same loop writing below dst/dir (copytree(src, dst/dir, dirs_exist_ok=True)).
CopyInto(src, dst, dir, K) ==
  [ex |-> TRUE,
   f |-> [p \in Paths |->
            IF \E x \in K : p = Under(dir, x) /\ src.f[x] # 0
              THEN src.f[CHOOSE x \in K : p = Under(dir, x)]
              ELSE dst.f[p]]]

\* The tree extract_7z leaves for artifact n: every artifact ships b, the odd
\* ones also ship a bundled server-data directory.
ArtifactTree(n) ==
  [ex |-> TRUE,
   f |-> [p \in Paths |->
            CASE p = "b" -> n
              [] p = "server-data/d" -> IF n % 2 = 1 THEN n ELSE 0
              [] OTHER -> 0]]

\* ------------------------------------------------------------ backup names
\* <base>_backup_<v> (k = 0), <base>_backup_<v>_<k> (k > 0), <base>_bak<k>.
NoName == [kind |-> "none", v |-> 0, k |-> 0]
VerName(v, k) == [kind |-> "ver", v |-> v, k |-> k]
BakName(k) == [kind |-> "bak", v |-> 0, k |-> k]

\* The directories of the other environment, when they stand beside those
\* of this one: its DeploymentPath (or DataPath) and the backup its own
\* update made.  i says how the operator named the other environment.
EnvName(i) == [kind |-> "env", v |-> i, k |-> 0]
EnvBackup(i, v) == [kind |-> "envbk", v |-> i, k |-> v]

\* The names an operator may give the directory of the other environment,
\* in pieces; "<name>" stands for the name of this environment's directory.
OtherNames == << <<"live">>, <<"<name>", "_backup", "_live">> >>

\* The name of a directory, in pieces.
Text(x) ==
  CASE x.kind = "ver" -> <<"<name>", "_backup", "_", ToString(x.v)>> \o
                         (IF x.k = 0 THEN <<>> ELSE <<"_", ToString(x.k)>>)
    [] x.kind = "bak" -> <<"<name>", "_bak", ToString(x.k)>>
    [] x.kind = "env" -> OtherNames[x.v]
    [] x.kind = "envbk" -> OtherNames[x.v] \o <<"_backup", "_", ToString(x.k)>>
    [] OTHER -> <<>>

\* Faulty variant: the pattern "*_backup*".
GlobAnyBackup(text) == \E i \in DOMAIN text : text[i] = "_backup"

\* parent_dir.glob(f"{server_name}_backup*") (1765-1769, 1796-1797)
GlobBackup(text) ==
  Len(text) >= 2 /\ text[1] = "<name>" /\ text[2] = "_backup"

\* Faulty variant: the version file is never consulted.
GetCurrentVersionNone(t, readOk) == 0

\* get_current_version: the content of version.txt, 0 (None) when the file is
\* absent or could not be read.
GetCurrentVersion(t, readOk) ==
  IF t.ex /\ t.f["version.txt"] # 0 /\ readOk THEN t.f["version.txt"] ELSE 0

\* Faulty variant: the candidate is returned without the existence check.
FreeSuffixUnchecked(existing, v, k) == k

\* Faulty variant: the suffix after the greatest one in use, whatever is free below.
FreeSuffixPastMax(existing, v, k) ==
  LET used == {x.k : x \in {y \in existing : y.kind = "ver" /\ y.v = v}}
  IN IF used = {} THEN k ELSE 1 + CHOOSE m \in used : \A j \in used : j <= m

\* while (parent_dir / backup_name).exists(): backup_name = f"{base}_{counter}"
RECURSIVE FreeSuffix(_, _, _)
FreeSuffix(existing, v, k) ==
  IF VerName(v, k) \in existing THEN FreeSuffix(existing, v, k + 1) ELSE k

\* while (parent_dir / f"{backup_base}{counter}").exists(): counter += 1
RECURSIVE FreeBak(_, _)
FreeBak(existing, k) ==
  IF BakName(k) \in existing THEN FreeBak(existing, k + 1) ELSE k

\* create_backup_name(target_path, new_artifact_number); existing are the
\* names present in the parent directory.
CreateBackupName(existing, current_version, new_artifact_number) ==
  IF current_version # 0
    THEN VerName(current_version, FreeSuffix(existing, current_version, 0))
    ELSE IF new_artifact_number # 0
      THEN VerName(new_artifact_number, FreeSuffix(existing, new_artifact_number, 0))
      ELSE BakName(FreeBak(existing, 1))

\* Finite maps from backup names to trees.
Put(m, name, t) == [x \in DOMAIN m \cup {name} |-> IF x = name THEN t ELSE m[x]]
Remove(m, names) == [x \in DOMAIN m \ names |-> m[x]]
NoBackups == [x \in {} |-> AbsentTree]

\* Faulty variant: the tree is removed instead of being kept under the new name.
MoveToNowhere(m, name, t) == m

\* Faulty variant: only the newest backup is kept.
MoveToOnly(m, name, t) == Put(NoBackups, name, t)

\* shutil.move(src, dst): a rename when dst is free; when dst is an existing
\* directory the source lands inside it, so dst gains the source's files.
MoveTo(m, name, t) ==
  IF name \in DOMAIN m THEN Put(m, name, CopyEntries(t, m[name], Entries(t)))
                       ELSE Put(m, name, t)

\* ------------------------------------------------------------ state
VARIABLES
  dataCfg,   \* server_config['server_data'] is set (a separate DataPath)
  mgmt,      \* tcadmin_enabled or service_enabled
  running,   \* the managed process runs
  dep,       \* the tree at DeploymentPath (server_files)
  data,      \* the tree at DataPath (server_data), when configured
  sbk,       \* directories beside DeploymentPath created as backups: name -> tree
  dbk,       \* directories beside DataPath created as backups: name -> tree
  pc,        \* position of the command in flight
  op,        \* the command's local variables and what it observed
  hist,      \* the two latest commands, when both were successful updates
  ops,       \* commands issued so far
  faults,    \* errors injected so far
  keep,      \* file_config['keep_downloaded_files']
  cache,     \* the download directory: artifact id -> the file <id>.7z
  prev,      \* the resolve of the previous command, when that was a download
  cfg,       \* the environment's section of config.ini, as get_server_config reads it
  posix,     \* the platform: st_ctime is the inode change time (else the creation time)
  dirs,      \* the order in which the directories were created and renamed
  reply,     \* what the latest command that runs in one step answered
  now,       \* int(time.time()), the clock in whole seconds
  gate,      \* allowed_roles, allowed_users and response_channel_id of [discord]
  ctx,       \* author, the author's roles and the channel of the messages handled
  tmp        \* the extract_<id>_<second> directories in the temp directory

\* The configuration and where the messages come from: no command changes
\* them.
conf == <<keep, dataCfg, mgmt, cfg, posix, gate, ctx>>

\* The clock and the temp directory: only an update's extraction and its
\* finally clause touch the temp directory.
scratch == <<now, tmp>>

vars == <<dataCfg, mgmt, running, dep, data, sbk, dbk, pc, op, hist, ops, faults,
          keep, cache, prev, cfg, posix, dirs, reply, now, gate, ctx, tmp>>

Artifacts == 1..MaxArtifact

\* ------------------------------------------------------------ artifact cache
\* The ids a download may ask for: those the updates install and, for each
\* of them, a longer id whose decimal form starts with it.
LongIds == {10 * n + 1 : n \in Artifacts}
CacheIds == Artifacts \cup LongIds

\* str(n)
RECURSIVE Digits(_)
Digits(n) == IF n < 10 THEN <<n>> ELSE Append(Digits(n \div 10), n % 10)

\* The file "<m>.7z" matches the pattern f'{n}*.7z' (1459).
GlobMatches(n, m) ==
  /\ Len(Digits(n)) <= Len(Digits(m))
  /\ SubSeq(Digits(m), 1, Len(Digits(n))) = Digits(n)

\* A file of the download directory: st is "none" (no such file), "full" (a
\* complete archive) or "part" (a truncated one); age is the number of whole
\* days since it was written, told apart up to MaxAge.
NoFile == [st |-> "none", age |-> 0]
NewFile(st) == [st |-> st, age |-> 0]
EmptyCache == [m \in CacheIds |-> NoFile]

\* download_path.glob(f'{artifact_number}*.7z') (1459)
ExistingFiles(c, n) == {m \in CacheIds : c[m].st # "none" /\ GlobMatches(n, m)}

\* Faulty variant: the cache is never consulted.
CacheHitNever(c, n, force) == FALSE

\* existing_files and not force_download (1461)
CacheHit(c, n, force) == ExistingFiles(c, n) # {} /\ ~force

\* Faulty variant: the download is attempted whatever the listing said.
AfterListingAlways(found) == "v_get"

\* 1479-1489: the archive is requested only when the listing had an anchor
\* for the id; otherwise the resolve raises.
AfterListing(found) == IF found THEN "v_get" ELSE "v_raise"

\* Faulty variant: a file that is exactly days old counts as old.
OldOrJust(c, days) == {m \in CacheIds : c[m].st # "none" /\ c[m].age >= days}

\* cleanup_old_files 205-209: the files with mtime < now - days are unlinked.
Old(c, days) == {m \in CacheIds : c[m].st # "none" /\ c[m].age > days}

Unlink(c, gone) == [m \in CacheIds |-> IF m \in gone THEN NoFile ELSE c[m]]

\* ------------------------------------------------------------ configuration
\* The section of one environment ("dev") in config.ini: section says whether
\* it is there, tcadmin and service are TCADMIN_Enabled and Service_Enabled,
\* tcFields says that tcadmin_executable and tcadmin_service_id are both set,
\* svcName that Service_Name is.
Configs ==
  [section : BOOLEAN, tcadmin : BOOLEAN, service : BOOLEAN, tcFields : BOOLEAN,
   svcName : BOOLEAN]

\* A complete section that manages the process through TCAdmin (m) or not at
\* all (~m).
Plain(m) ==
  [section |-> TRUE, tcadmin |-> m, service |-> FALSE, tcFields |-> TRUE,
   svcName |-> TRUE]

\* The environment tokens a command may be given; config.ini has no section
\* for "live".
Tokens == {"dev", "live", "prod"}

\* Faulty variant: every token and every section is accepted.
ValidateNothing(token, c) == "ok"

\* The checks every environment command makes before it acts (516-529,
\* 974-981, 1221-1229, 850-857, 889-896) with get_server_config 101-138: the
\* token, the section, and the fields the enabled management needs.
Validate(token, c) ==
  IF token \notin {"dev", "live"} THEN "invalid"
  ELSE IF ~(token = "dev" /\ c.section) THEN "absent"
  ELSE IF c.tcadmin /\ ~c.tcFields THEN "misconfigured"
  ELSE IF c.service /\ ~c.svcName THEN "misconfigured"
  ELSE "ok"

\* The command was given the environment of the model and passed the checks.
Accepted == Validate("dev", cfg) = "ok"

\* ------------------------------------------------------------ gating
\* 36-38: nothing configured.  A channel id of 0 stands for None.
NoGate == [roles |-> {}, users |-> {}, channel |-> 0]

\* The settings of [discord] (62-76) and the messages a command may come with.
Gates == [roles : SUBSET {10}, users : SUBSET {1}, channel : {0, 7}]
Contexts == [author : {1, 2}, roles : SUBSET {10, 11}, channel : {7, 8}]
Anyone == [author |-> 2, roles |-> {}, channel |-> 8]

\* Faulty variant: everyone is allowed as soon as one of the lists is empty.
CheckPermissionsEither(g, c) ==
  IF g.roles = {} \/ g.users = {} THEN TRUE
  ELSE IF g.users # {} /\ c.author \in g.users THEN TRUE
  ELSE IF g.roles # {} /\ (\E r \in g.roles : r \in c.roles) THEN TRUE
  ELSE FALSE

\* check_permissions 1343-1360
CheckPermissions(g, c) ==
  IF g.roles = {} /\ g.users = {} THEN TRUE
  ELSE IF g.users # {} /\ c.author \in g.users THEN TRUE
  ELSE IF g.roles # {} /\ (\E r \in g.roles : r \in c.roles) THEN TRUE
  ELSE FALSE

\* check_channel 1362-1368
CheckChannel(g, c) ==
  IF g.channel = 0 THEN TRUE ELSE c.channel = g.channel

\* The two checks every command begins with (487-496 and alike): a command
\* that fails one of them sends a message at most and returns.
Allowed == CheckPermissions(gate, ctx) /\ CheckChannel(gate, ctx)

\* stop_server / start_server / get_server_status 368-419: TCAdmin when it
\* is enabled, else the Windows service when that is, else nothing.
Variant(c) ==
  IF c.tcadmin THEN "tcadmin" ELSE IF c.service THEN "service" ELSE "null"

\* ------------------------------------------------------------ directory times
\* A directory beside (or at) the live paths: the live trees and the backups,
\* the latter in the form the catalog lists them.
LiveDep == [ns |-> "dep", name |-> NoName]
LiveData == [ns |-> "data", name |-> NoName]
Backup(ns, name) == [ns |-> ns, name |-> name]

\* The sequences that enumerate the set S, each element once.
RECURSIVE Perms(_)
Perms(S) ==
  IF S = {} THEN {<<>>}
  ELSE UNION {{<<x>> \o q : q \in Perms(S \ {x})} : x \in S}

Without(q, S) == SelectSeq(q, LAMBDA x : x \notin S)

Index(q, x) == CHOOSE i \in DOMAIN q : q[i] = x

\* dirs.born lists the existing directories in the order of their creation;
\* dirs.made lists, command by command, the backups each command made (an
\* update makes the backup of DeploymentPath before that of DataPath).
NoDirs == [born |-> <<>>, made |-> <<>>]

\* The order of creation is followed where st_ctime reads it: on Windows.
Born(b) == IF posix THEN <<>> ELSE b

Prune(q, S) == SelectSeq([i \in DOMAIN q |-> q[i] \ S], LAMBDA g : g # {})

\* The command that made backup x, as a rank among those that made backups.
MadeBy(d, x) == CHOOSE i \in DOMAIN d.made : x \in d.made[i]

\* mkdir / copytree makes directory x anew.
Created(d, x) == [d EXCEPT !.born = Born(Append(Without(@, {x}), x))]

\* mkdir(exist_ok=True)
Ensured(d, x, exists) == IF exists THEN d ELSE Created(d, x)

\* shutil.move(from, to): the directory keeps its creation time under its
\* new name; when the name is taken the directory lands inside that one.
\* second says that the command made a backup before this one.
Renamed(d, from, to, taken, second) ==
  IF taken THEN [d EXCEPT !.born = Without(@, {from})]
  ELSE [born |-> Born([i \in DOMAIN d.born |-> IF d.born[i] = from THEN to ELSE d.born[i]]),
        made |-> IF second /\ d.made # <<>>
                   THEN [d.made EXCEPT ![Len(d.made)] = @ \cup {to}]
                   ELSE Append(d.made, {to})]

\* rmtree, or a directory that is gone.
Deleted(d, S) == [born |-> Without(d.born, S), made |-> Prune(d.made, S)]

\* stat.st_ctime of a backup, as a rank: the time of the rename on POSIX (the
\* latest change of the inode), the time the directory was created on
\* Windows.
StCtime(d, x) ==
  IF posix THEN 2 * MadeBy(d, x) + (IF x.ns = "d" THEN 1 ELSE 0)
           ELSE Index(d.born, x)

\* The live directories an operator made, in the order they were made.
LiveDirs(t, u) ==
  (IF t.ex THEN {LiveDep} ELSE {}) \cup (IF u.ex THEN {LiveData} ELSE {})

DepFirst(t, u) ==
  [born |-> Born((IF t.ex THEN <<LiveDep>> ELSE <<>>) \o (IF u.ex THEN <<LiveData>> ELSE <<>>)),
   made |-> <<>>]

\* What the latest command answered, when it ran in one step.
NoReply ==
  [cmd |-> "none", at |-> 0, res |-> "none", list |-> <<>>, calls |-> <<>>,
   status |-> "none", count |-> 0, days |-> 0, version |-> 0]

\* The answer of the command that is issued now.
Answer(cmd, res) == [NoReply EXCEPT !.cmd = cmd, !.at = ops + 1, !.res = res]

\* os.path.join(full_temp_path, f"extract_{artifact_number}_{int(time.time())}")
NoTmp == [n |-> 0, t |-> 0]
TempDir(n, t) == [n |-> n, t |-> t]

NoOp ==
  [cmd |-> "none", n |-> 0, bk |-> NoName, dbk |-> NoName, cnt |-> 0,
   used |-> {}, ra |-> 0, rb |-> 0, apply |-> "none", ns |-> "none", target |-> NoName,
   newbk |-> NoName, stopped |-> FALSE, starts |-> 0, res |-> "none",
   preDep |-> AbsentTree, preData |-> AbsentTree,
   preS |-> NoBackups, preD |-> NoBackups,
   force |-> FALSE, hit |-> FALSE, list |-> "none", gets |-> 0, file |-> 0,
   preCache |-> EmptyCache, preRun |-> FALSE, unread |-> FALSE,
   restart |-> "none", tmp |-> NoTmp, reused |-> FALSE, log |-> <<>>,
   lock |-> "none", scans |-> 0, run |-> <<>>]

\* What is remembered of a download command for the command after it.
NoPrev == [n |-> 0, force |-> FALSE, had |-> FALSE, list |-> "none", gets |-> 0,
           file |-> 0, res |-> "none"]

NoHist == [n1 |-> 0, t1 |-> AbsentTree, n2 |-> 0, t2 |-> AbsentTree, bk2 |-> NoName]

\* The trees an operator may start the bot on: DeploymentPath missing, empty,
\* or a manual install with or without data in ServerData; DataPath (when
\* configured) missing, empty or holding operator data.
InitDep ==
  {AbsentTree} \cup
  {[ex |-> TRUE, f |-> [ZeroF EXCEPT !["a"] = x, !["ServerData/d"] = y]] :
     x \in {0, Legacy}, y \in {0, Stale}}

InitData ==
  {AbsentTree} \cup
  {[ex |-> TRUE, f |-> [ZeroF EXCEPT !["d"] = x, !["e"] = y]] :
     x \in {0, Cur}, y \in {0, Cur}}

Init ==
  /\ dataCfg \in BOOLEAN
  /\ mgmt \in BOOLEAN
  /\ running = TRUE
  /\ dep \in InitDep
  /\ data \in (IF dataCfg THEN InitData ELSE {AbsentTree})
  /\ sbk = NoBackups
  /\ dbk = NoBackups
  /\ pc = "idle"
  /\ op = NoOp
  /\ hist = NoHist
  /\ ops = 0
  /\ faults = 0
  /\ keep \in BOOLEAN
  /\ cache = EmptyCache
  /\ prev = NoPrev
  /\ cfg \in {c \in Configs : mgmt = (c.tcadmin \/ c.service)}
  /\ posix \in BOOLEAN
  /\ dirs \in {[born |-> Born(b), made |-> <<>>] : b \in Perms(LiveDirs(dep, data))}
  /\ reply = NoReply
  /\ now = 0
  /\ gate = NoGate
  /\ ctx = Anyone
  /\ tmp = {}

CanFail == faults < MaxFaults

\* Faulty variant: the exception is logged and the apply carries on.
RaiseSwallowed == /\ pc' = "c_version"
                  /\ faults' = faults + 1

\* An exception inside copy_server_files: logged and re-raised (1754-1756),
\* caught by update_server's handler (613).
Raise == /\ pc' = "u_except"
         /\ faults' = faults + 1

\* ------------------------------------------------------------ process control
\* What sc.exe prints, as the words of its output (punctuation left out), with
\* its exit code.  A start of a service that is up fails with 1056, a stop
\* of a service that is down fails with 1062, and a caller without the
\* right is refused with 5.
ScStart(up) ==
  IF up THEN [rc |-> 1056,
              text |-> <<"SC", "StartService", "FAILED", "1056", "An", "instance",
                         "of", "the", "service", "is", "already", "running">>]
        ELSE [rc |-> 0, text |-> <<"STATE", "2", "START_PENDING">>]

ScStop(up) ==
  IF up THEN [rc |-> 0, text |-> <<"STATE", "3", "STOP_PENDING">>]
        ELSE [rc |-> 1062,
              text |-> <<"SC", "ControlService", "FAILED", "1062", "The", "service",
                         "has", "not", "been", "started">>]

ScQuery(up) ==
  IF up THEN [rc |-> 0, text |-> <<"STATE", "4", "RUNNING">>]
        ELSE [rc |-> 0, text |-> <<"STATE", "1", "STOPPED">>]

ScDenied ==
  [rc |-> 5, text |-> <<"SC", "OpenService", "FAILED", "5", "Access", "is", "denied">>]

\* subprocess.run(..., timeout=...) raised TimeoutExpired.
ScTimeout == [rc |-> -1, text |-> <<>>]

\* str.lower() on one word.
LowerWord(w) ==
  CASE w = "SC" -> "sc"
    [] w = "StartService" -> "startservice"
    [] w = "ControlService" -> "controlservice"
    [] w = "OpenService" -> "openservice"
    [] w = "FAILED" -> "failed"
    [] w = "An" -> "an"
    [] w = "The" -> "the"
    [] w = "Access" -> "access"
    [] w = "STATE" -> "state"
    [] w = "START_PENDING" -> "start_pending"
    [] w = "STOP_PENDING" -> "stop_pending"
    [] w = "RUNNING" -> "running"
    [] w = "STOPPED" -> "stopped"
    [] OTHER -> w

Lower(text) == [i \in DOMAIN text |-> LowerWord(text[i])]

\* phrase in text
Says(text, phrase) ==
  \E i \in 1..(Len(text) - Len(phrase) + 1) :
     SubSeq(text, i, i + Len(phrase) - 1) = phrase

\* start_windows_service 301-321
StartWindowsService(out) ==
  IF out = ScTimeout THEN "raised"
  ELSE IF out.rc = 0 THEN "ok"
  ELSE IF Says(Lower(out.text), <<"already", "running">>)
          \/ Says(Lower(out.text), <<"running">>) THEN "ok"
  ELSE "raised"

\* stop_windows_service 323-343
StopWindowsService(out) ==
  IF out = ScTimeout THEN "raised"
  ELSE IF out.rc = 0 THEN "ok"
  ELSE IF Says(Lower(out.text), <<"not", "started">>)
          \/ Says(Lower(out.text), <<"stopped">>) THEN "ok"
  ELSE "raised"

\* get_windows_service_status 345-364
GetWindowsServiceStatus(out) ==
  IF out = ScTimeout THEN "error"
  ELSE IF out.rc = 0
         THEN IF Says(out.text, <<"RUNNING">>) THEN "running"
              ELSE IF Says(out.text, <<"STOPPED">>) THEN "stopped"
              ELSE "unknown"
  ELSE "not_found"

\* Faulty variant: every enabled kind of management is used.
TakenEach(c) ==
  IF ~c.tcadmin /\ ~c.service THEN <<"null">>
  ELSE (IF c.tcadmin THEN <<"tcadmin">> ELSE <<>>) \o
       (IF c.service THEN <<"service">> ELSE <<>>)

\* The branches of the if / elif / else chain of stop_server, start_server
\* and get_server_status (368-419) that run for configuration c.
Taken(c) == <<Variant(c)>>

\* The external command a branch runs: TCAdminServiceBrowser.exe
\* -command=start|stop (270-299; it has no status command, 407-411), or
\* sc start|stop|query (301-364).
CallOf(variant, command) ==
  IF variant = "tcadmin" /\ command # "status"
    THEN <<[tool |-> "tcadmin", command |-> command]>>
  ELSE IF variant = "service"
    THEN <<[tool |-> "sc", command |-> IF command = "status" THEN "query" ELSE command]>>
  ELSE <<>>

RECURSIVE CallsOf(_, _)
CallsOf(taken, command) ==
  IF taken = <<>> THEN <<>>
  ELSE CallOf(Head(taken), command) \o CallsOf(Tail(taken), command)

Calls(c, command) == CallsOf(Taken(c), command)

\* The ways stop_server (368-385) can end for configuration c and a process
\* that is up or not: what it returned or that it raised, the process
\* afterwards, and whether the external command failed for a reason outside
\* the program.
StopServer(c, up) ==
  IF Variant(c) = "tcadmin"
    THEN {[res |-> "ok", up |-> FALSE, fault |-> FALSE],
          [res |-> "raised", up |-> up, fault |-> TRUE]}
  ELSE IF Variant(c) = "service"
    THEN {[res |-> StopWindowsService(out),
           up |-> IF out.rc = 0 THEN FALSE ELSE up,
           fault |-> out # ScStop(up)] : out \in {ScStop(up), ScDenied, ScTimeout}}
  ELSE {[res |-> "ok", up |-> up, fault |-> FALSE]}

\* start_server 387-402
StartServer(c, up) ==
  IF Variant(c) = "tcadmin"
    THEN {[res |-> "ok", up |-> TRUE, fault |-> FALSE],
          [res |-> "raised", up |-> up, fault |-> TRUE]}
  ELSE IF Variant(c) = "service"
    THEN {[res |-> StartWindowsService(out),
           up |-> IF out.rc = 0 THEN TRUE ELSE up,
           fault |-> out # ScStart(up)] : out \in {ScStart(up), ScDenied, ScTimeout}}
  ELSE {[res |-> "ok", up |-> up, fault |-> FALSE]}

\* get_server_status 404-419
GetServerStatus(c, up) ==
  IF Variant(c) = "tcadmin"
    THEN {[res |-> "unknown", up |-> up, fault |-> FALSE]}
  ELSE IF Variant(c) = "service"
    THEN {[res |-> GetWindowsServiceStatus(out), up |-> up,
           fault |-> out # ScQuery(up)] : out \in {ScQuery(up), ScDenied, ScTimeout}}
  ELSE {[res |-> "no_management", up |-> up, fault |-> FALSE]}

ServerCall(command, c, up) ==
  IF command = "stop" THEN StopServer(c, up)
  ELSE IF command = "start" THEN StartServer(c, up)
  ELSE GetServerStatus(c, up)

\* ------------------------------------------------------------ resolve
\* download_artifact 425-463: the download command resolves the artifact,
\* with force when asked to.
Download(n, force, limit) ==
  /\ pc = "idle"
  /\ ops < limit
  /\ Allowed
  /\ ops' = ops + 1
  /\ op' = [NoOp EXCEPT !.cmd = "download", !.n = n, !.force = force,
                        !.preDep = dep, !.preData = data, !.preS = sbk,
                        !.preD = dbk, !.preCache = cache,
                        !.preRun = running]
  /\ pc' = "v_lookup"
  /\ reply' = NoReply
  /\ UNCHANGED <<conf, scratch, dirs, cache, prev, running, dep, data, sbk, dbk, hist,
                 faults>>

\* download_or_find_artifact 1458-1471: a file of the download directory
\* that matches the id is returned unless the download is forced; which of
\* several matches comes first is up to the file system.
VLookup ==
  /\ pc = "v_lookup"
  /\ IF CacheHit(cache, op.n, op.force)
       THEN \E m \in ExistingFiles(cache, op.n) :
              /\ op' = [op EXCEPT !.hit = TRUE, !.file = m]
              /\ pc' = "v_return"
       ELSE /\ pc' = "v_list"
            /\ UNCHANGED op
  /\ UNCHANGED <<conf, scratch, dirs, reply, cache, prev, running, dep, data, sbk, dbk, hist,
                 ops, faults>>

\* get_artifact_hash_from_directory 1409-1452 and its caller 1473-1489: the
\* listing is fetched and searched for the anchor of the id.  The listing may
\* lack the anchor; the fetch may fail (status other than 200, no answer).
VList ==
  /\ pc = "v_list"
  /\ \/ \E found \in BOOLEAN :
          /\ op' = [op EXCEPT !.list = IF found THEN "found" ELSE "absent"]
          /\ pc' = AfterListing(found)
          /\ UNCHANGED faults
     \/ /\ CanFail
        /\ op' = [op EXCEPT !.list = "error"]
        /\ pc' = AfterListing(FALSE)
        /\ faults' = faults + 1
  /\ UNCHANGED <<conf, scratch, dirs, reply, cache, prev, running, dep, data, sbk, dbk, hist,
                 ops>>

\* download_or_find_artifact 1491-1523: the archive is requested and its
\* body written to <id>.7z.  A status other than 200 raises before the file
\* is opened; an error while the body is streamed leaves the file as far as
\* it was written.
VGet ==
  /\ pc = "v_get"
  /\ \/ /\ cache' = [cache EXCEPT ![op.n] = NewFile("full")]
        /\ op' = [op EXCEPT !.gets = @ + 1, !.file = op.n]
        /\ pc' = "v_return"
        /\ UNCHANGED faults
     \/ /\ CanFail
        /\ cache' = cache
        /\ op' = [op EXCEPT !.gets = @ + 1]
        /\ pc' = "v_raise"
        /\ faults' = faults + 1
     \/ /\ CanFail
        /\ cache' = [cache EXCEPT ![op.n] = NewFile("part")]
        /\ op' = [op EXCEPT !.gets = @ + 1]
        /\ pc' = "v_raise"
        /\ faults' = faults + 1
  /\ UNCHANGED <<conf, scratch, dirs, reply, prev, running, dep, data, sbk, dbk, hist, ops>>

\* The resolve returns the path: to update_server (547) or to
\* download_artifact, which reports the file (465-475).
VReturn ==
  /\ pc = "v_return"
  /\ \/ /\ op.cmd = "update"
        /\ pc' = "u_extract"
        /\ op' = [op EXCEPT !.log = Append(@, "resolved")]
     \/ /\ op.cmd = "download"
        /\ pc' = "done"
        /\ op' = [op EXCEPT !.res = "ok"]
  /\ UNCHANGED <<conf, scratch, dirs, reply, cache, prev, running, dep, data, sbk, dbk, hist,
                 ops, faults>>

\* The resolve raises (1489, 1525-1527): into update_server's handler (613)
\* or download_artifact's (477-479).
VRaise ==
  /\ pc = "v_raise"
  /\ \/ /\ op.cmd = "update"
        /\ pc' = "u_except"
        /\ UNCHANGED op
     \/ /\ op.cmd = "download"
        /\ pc' = "done"
        /\ op' = [op EXCEPT !.res = "failed"]
  /\ UNCHANGED <<conf, scratch, dirs, reply, cache, prev, running, dep, data, sbk, dbk, hist,
                 ops, faults>>

\* Time passes: every cached file is a day older.
Tick ==
  /\ pc = "idle"
  /\ \E m \in CacheIds : cache[m].st # "none" /\ cache[m].age < MaxAge
  /\ cache' = [m \in CacheIds |->
                 IF cache[m].st # "none" /\ cache[m].age < MaxAge
                   THEN [cache[m] EXCEPT !.age = @ + 1] ELSE cache[m]]
  /\ UNCHANGED <<conf, scratch, dirs, reply, prev, running, dep, data, sbk, dbk, pc, op, hist,
                 ops, faults>>

\* cleanup_files 777-810 with cleanup_old_files 192-215: nothing for
\* days <= 0; otherwise the old files are unlinked, and an error part-way is
\* logged and swallowed.
Days == (0 - 1)..(MaxAge - 1)

Cleanup(days, limit) ==
  /\ pc = "idle"
  /\ ops < limit
  /\ Allowed
  /\ ops' = ops + 1
  /\ \/ /\ cache' = IF days <= 0 THEN cache ELSE Unlink(cache, Old(cache, days))
        /\ reply' = [Answer("cleanup", IF days <= 0 THEN "refused" ELSE "ok")
                       EXCEPT !.days = days,
                              !.count = IF days <= 0 THEN 0
                                        ELSE Cardinality(Old(cache, days))]
        /\ UNCHANGED faults
     \/ /\ CanFail
        /\ days > 0
        /\ \E gone \in SUBSET Old(cache, days) :
             /\ gone # Old(cache, days)
             /\ cache' = Unlink(cache, gone)
        /\ reply' = [Answer("cleanup", "ok") EXCEPT !.days = days]
        /\ faults' = faults + 1
  /\ hist' = NoHist
  /\ prev' = NoPrev
  /\ UNCHANGED <<conf, scratch, dirs, running, dep, data, sbk, dbk, pc, op>>

\* ------------------------------------------------------------ update
\* update_server 482-547: validation, then the artifact is resolved.
Update(n, limit) ==
  /\ pc = "idle"
  /\ ops < limit
  /\ Allowed
  /\ Accepted
  /\ ops' = ops + 1
  /\ op' = [NoOp EXCEPT !.cmd = "update", !.n = n, !.preDep = dep,
                        !.preData = data, !.preS = sbk, !.preD = dbk,
                        !.preCache = cache,
                        !.preRun = running]
  /\ pc' = "v_lookup"
  /\ reply' = NoReply
  /\ UNCHANGED <<conf, scratch, dirs, cache, prev, running, dep, data, sbk, dbk, hist,
                 faults>>

\* update_server 549-553: the directory is named for the artifact and the
\* second, os.makedirs(exist_ok=True) accepts one that is there already, and
\* the archive is extracted into it; a truncated archive cannot be read.
UExtract ==
  /\ pc = "u_extract"
  /\ tmp' = tmp \cup {TempDir(op.n, now)}
  /\ \/ /\ cache[op.file].st = "full"
        /\ pc' = "u_stop"
        /\ UNCHANGED faults
     \/ /\ cache[op.file].st # "full"
        /\ pc' = "u_except"
        /\ UNCHANGED faults
     \/ /\ cache[op.file].st = "full"
        /\ CanFail
        /\ pc' = "u_except"
        /\ faults' = faults + 1
  /\ op' = [op EXCEPT !.tmp = TempDir(op.n, now),
                      !.reused = TempDir(op.n, now) \in tmp,
                      !.log = IF pc' = "u_stop" THEN Append(@, "extracted") ELSE @]
  /\ UNCHANGED <<conf, now, dirs, reply, cache, prev, running, dep, data, sbk, dbk, hist,
                 ops>>

\* Faulty variant: a stop that raises is swallowed and the update goes on.
UStopSwallowed ==
  /\ pc = "u_stop"
  /\ \/ /\ ~mgmt
        /\ UNCHANGED <<running, op, faults>>
     \/ /\ mgmt
        /\ \E o \in StopServer(cfg, running) :
             /\ o.fault => CanFail
             /\ running' = o.up
             /\ faults' = IF o.fault THEN faults + 1 ELSE faults
             /\ op' = [op EXCEPT !.stopped = (o.res = "ok"),
                                 !.log = @ \o (IF o.res = "ok" THEN <<"stop", "stopped">>
                                                              ELSE <<"stop">>)]
  /\ pc' = "c_bkdep"
  /\ UNCHANGED <<conf, scratch, dirs, reply, cache, prev, dep, data, sbk, dbk, hist, ops>>

\* check_file_locks 217-245: the default of max_retries.
max_retries == 3

\* What one walk over the directory may find: no locked file, a locked
\* file, or an error raised by the walk or by is_file_locked.
ScanOutcomes == {"clean", "locked", "error"}

\* What the scans of one call would find, scan by scan.
ScanRuns(retries) == [1..retries -> ScanOutcomes]

\* Faulty variant: an error of one scan is logged and the next scan is made.
RECURSIVE CheckFileLocksRetrying(_, _, _)
CheckFileLocksRetrying(run, attempt, retries) ==
  IF attempt >= retries THEN [res |-> FALSE, scans |-> attempt]
  ELSE IF run[attempt + 1] = "clean" THEN [res |-> TRUE, scans |-> attempt + 1]
  ELSE CheckFileLocksRetrying(run, attempt + 1, retries)

\* check_file_locks 221-245, from the scan after `attempt` scans: True at a
\* scan without locked file, False at a scan that raises, the next scan
\* after one that found locked files, False when the attempts are used up.
RECURSIVE CheckFileLocksFrom(_, _, _)
CheckFileLocksFrom(run, attempt, retries) ==
  IF attempt >= retries THEN [res |-> FALSE, scans |-> attempt]
  ELSE IF run[attempt + 1] = "clean" THEN [res |-> TRUE, scans |-> attempt + 1]
  ELSE IF run[attempt + 1] = "error" THEN [res |-> FALSE, scans |-> attempt + 1]
  ELSE CheckFileLocksFrom(run, attempt + 1, retries)

CheckFileLocks(run, retries) == CheckFileLocksFrom(run, 0, retries)

\* The runs of scans a call of the update may meet; a call that is not
\* noted leaves the same state whatever the scans find, and one run stands
\* for all of them.
Met(observe) ==
  IF observe THEN ScanRuns(max_retries) ELSE {[k \in 1..max_retries |-> "clean"]}

\* Faulty variant: an update that finds files locked is given up.
UStopThenAborting(observe) ==
  /\ pc = "u_stop"
  /\ \E run \in Met(observe) :
       LET chk == CheckFileLocks(run, max_retries)
           seen(o) == IF observe
                      THEN [o EXCEPT !.lock = IF chk.res THEN "clear" ELSE "held",
                                     !.scans = chk.scans, !.run = run]
                      ELSE o
       IN \/ /\ ~mgmt
             /\ pc' = IF chk.res THEN "c_bkdep" ELSE "u_except"
             /\ op' = seen(op)
             /\ UNCHANGED <<running, faults>>
          \/ /\ mgmt
             /\ \E o \in StopServer(cfg, running) :
                  /\ o.fault => CanFail
                  /\ running' = o.up
                  /\ faults' = IF o.fault THEN faults + 1 ELSE faults
                  /\ pc' = IF o.res = "ok" /\ chk.res THEN "c_bkdep" ELSE "u_except"
                  /\ op' = IF o.res = "ok"
                           THEN seen([op EXCEPT !.stopped = TRUE,
                                                !.log = @ \o <<"stop", "stopped">>])
                           ELSE [op EXCEPT !.stopped = FALSE,
                                           !.log = @ \o <<"stop">>]
  /\ UNCHANGED <<conf, scratch, dirs, reply, cache, prev, dep, data, sbk, dbk, hist, ops>>

\* update_server 555-568: stop_server when management is configured, then
\* check_file_locks on DeploymentPath, whose result only chooses whether a
\* warning is sent; with `observe` the call is noted in op (what the scans
\* found, the result and the number of scans made).
UStopThen(observe) ==
  /\ pc = "u_stop"
  /\ \E run \in Met(observe) :
       LET chk == CheckFileLocks(run, max_retries)
           seen(o) == IF observe
                      THEN [o EXCEPT !.lock = IF chk.res THEN "clear" ELSE "held",
                                     !.scans = chk.scans, !.run = run]
                      ELSE o
       IN \/ /\ ~mgmt
             /\ pc' = "c_bkdep"
             /\ op' = seen(op)
             /\ UNCHANGED <<running, faults>>
          \/ /\ mgmt
             /\ \E o \in StopServer(cfg, running) :
                  /\ o.fault => CanFail
                  /\ running' = o.up
                  /\ faults' = IF o.fault THEN faults + 1 ELSE faults
                  /\ pc' = IF o.res = "ok" THEN "c_bkdep" ELSE "u_except"
                  /\ op' = IF o.res = "ok"
                           THEN seen([op EXCEPT !.stopped = TRUE,
                                                !.log = @ \o <<"stop", "stopped">>])
                           ELSE [op EXCEPT !.stopped = FALSE,
                                           !.log = @ \o <<"stop">>]
  /\ UNCHANGED <<conf, scratch, dirs, reply, cache, prev, dep, data, sbk, dbk, hist, ops>>

\* update_server 555-568 as the update runs it.
UStop == UStopThen(FALSE)

\* copy_server_files 1606-1616: move a non-empty DeploymentPath aside.
CBackupDep ==
  /\ pc = "c_bkdep"
  /\ \/ /\ ~NonEmpty(dep)
        /\ pc' = "c_bkdata"
        /\ op' = [op EXCEPT !.apply = "running", !.log = Append(@, "replace")]
        /\ UNCHANGED <<dep, sbk, dirs, faults>>
     \/ /\ NonEmpty(dep)
        /\ \E readOk \in BOOLEAN :
             /\ readOk \/ (CanFail /\ dep.f["version.txt"] # 0)
             /\ LET name == CreateBackupName(DOMAIN sbk,
                                             GetCurrentVersion(dep, readOk), op.n)
                IN /\ sbk' = MoveTo(sbk, name, dep)
                   /\ dep' = AbsentTree
                   /\ dirs' = Renamed(dirs, LiveDep, Backup("s", name),
                                      name \in DOMAIN sbk, FALSE)
                   /\ op' = [op EXCEPT !.apply = "running", !.bk = name,
                                       !.log = Append(@, "replace")]
             /\ faults' = IF readOk THEN faults ELSE faults + 1
        /\ pc' = "c_bkdata"
     \/ /\ NonEmpty(dep)
        /\ CanFail
        /\ Raise
        /\ op' = [op EXCEPT !.apply = "raised", !.log = Append(@, "replace")]
        /\ UNCHANGED <<dep, sbk, dirs>>
  /\ UNCHANGED <<conf, scratch, reply, cache, prev, running, data, dbk, hist, ops>>

\* copy_server_files 1618-1630: move a configured, non-empty DataPath aside.
CBackupData ==
  /\ pc = "c_bkdata"
  /\ \/ /\ ~(dataCfg /\ NonEmpty(data))
        /\ pc' = "c_install"
        /\ UNCHANGED <<data, dbk, dirs, op, faults>>
     \/ /\ dataCfg /\ NonEmpty(data)
        /\ LET name == CreateBackupName(DOMAIN dbk, GetCurrentVersion(data, TRUE), op.n)
           IN /\ dbk' = MoveTo(dbk, name, data)
              /\ data' = AbsentTree
              /\ dirs' = Renamed(dirs, LiveData, Backup("d", name),
                                 name \in DOMAIN dbk, op.bk # NoName)
              /\ op' = [op EXCEPT !.dbk = name]
        /\ pc' = "c_install"
        /\ UNCHANGED faults
     \/ /\ dataCfg /\ NonEmpty(data)
        /\ CanFail
        /\ Raise
        /\ op' = [op EXCEPT !.apply = "raised"]
        /\ UNCHANGED <<data, dbk, dirs>>
  /\ UNCHANGED <<conf, scratch, reply, cache, prev, running, dep, sbk, hist, ops>>

\* copy_server_files 1632-1645: recreate DeploymentPath and copy every
\* top-level entry of the extracted tree into it.  A failure leaves the
\* entries copied so far.
CInstall ==
  /\ pc = "c_install"
  /\ dirs' = Ensured(dirs, LiveDep, dep.ex)
  /\ LET src == ArtifactTree(op.file)
         fresh == IF dep.ex THEN dep ELSE EmptyTree
     IN \/ /\ dep' = CopyEntries(src, fresh, Entries(src))
           /\ pc' = "c_tier_a"
           /\ UNCHANGED <<op, faults>>
        \/ /\ CanFail
           /\ \E K \in SUBSET Entries(src) :
                /\ K # Entries(src)
                /\ dep' = CopyEntries(src, fresh, K)
           /\ Raise
           /\ op' = [op EXCEPT !.apply = "raised"]
  /\ UNCHANGED <<conf, scratch, reply, cache, prev, running, data, sbk, dbk, hist, ops>>

\* mkdir(parents=True, exist_ok=True)
Mkdir(t) == IF t.ex THEN t ELSE EmptyTree

\* Number of files below dir in tree t (the os.walk count of 1704-1706).
WalkCount(t, dir) == Cardinality({x \in DataNames : t.f[Under(dir, x)] # 0})

\* Faulty variant: restored data always goes to DeploymentPath/ServerData.
RestoredToServer(src, K) ==
  [dep |-> CopyInto(src, dep, "ServerData", K), data |-> data]

\* The data destination after copying the entries K of src into it: DataPath
\* when configured (1681-1694, 1714-1726), else DeploymentPath/ServerData
\* (1695-1701, 1727-1730).
Restored(src, K) ==
  IF dataCfg THEN [dep |-> dep, data |-> CopyEntries(src, Mkdir(data), K)]
             ELSE [dep |-> CopyInto(src, dep, "ServerData", K), data |-> data]

\* What the copy adds to data_restored_files + data_restored_dirs.
RestoredCount(src, after) ==
  IF dataCfg THEN Cardinality(Entries(src)) ELSE WalkCount(after.dep, "ServerData")

\* One restore tier reading src: it copies everything, or fails part-way.
RestoreFrom(src, tier, next) ==
  \/ /\ LET after == Restored(src, Entries(src))
        IN /\ dep' = after.dep
           /\ data' = after.data
           /\ op' = [op EXCEPT !.cnt = @ + RestoredCount(src, after),
                               !.used = @ \cup {tier},
                               !.ra = IF tier = "a" THEN RestoredCount(src, after) ELSE @,
                               !.rb = IF tier = "b" THEN RestoredCount(src, after) ELSE @]
     /\ dirs' = IF dataCfg THEN Ensured(dirs, LiveData, data.ex) ELSE dirs
     /\ pc' = next
     /\ UNCHANGED faults
  \/ /\ CanFail
     /\ \E K \in SUBSET Entries(src) :
          /\ K # Entries(src)
          /\ dep' = Restored(src, K).dep
          /\ data' = Restored(src, K).data
     /\ op' = [op EXCEPT !.used = @ \cup {tier}, !.apply = "raised"]
     /\ dirs' = IF dataCfg THEN Ensured(dirs, LiveData, data.ex) ELSE dirs
     /\ Raise

\* copy_server_files 1651-1671: restore DataPath from the data backup.
TierAApplies == dataCfg /\ op.dbk # NoName /\ op.dbk \in DOMAIN dbk

CTierA ==
  /\ pc = "c_tier_a"
  /\ \/ /\ TierAApplies
        /\ RestoreFrom(dbk[op.dbk], "a", "c_tier_b")
     \/ /\ ~TierAApplies
        /\ pc' = "c_tier_b"
        /\ UNCHANGED <<dep, data, dirs, op, faults>>
  /\ UNCHANGED <<conf, scratch, reply, cache, prev, running, sbk, dbk, hist, ops>>

\* copy_server_files 1673-1708: restore from ServerData inside the
\* deployment backup.
TierBApplies ==
  /\ op.bk # NoName
  /\ op.bk \in DOMAIN sbk
  /\ SubTree(sbk[op.bk], "ServerData").ex

CTierB ==
  /\ pc = "c_tier_b"
  /\ \/ /\ TierBApplies
        /\ RestoreFrom(SubTree(sbk[op.bk], "ServerData"), "b", "c_tier_c")
     \/ /\ ~TierBApplies
        /\ pc' = "c_tier_c"
        /\ UNCHANGED <<dep, data, dirs, op, faults>>
  /\ UNCHANGED <<conf, scratch, reply, cache, prev, running, sbk, dbk, hist, ops>>

\* copy_server_files 1710-1737: fall back to server-data of the artifact.
TierCApplies ==
  /\ op.cnt = 0
  /\ SubTree(ArtifactTree(op.file), "server-data").ex

CTierC ==
  /\ pc = "c_tier_c"
  /\ \/ /\ TierCApplies
        /\ RestoreFrom(SubTree(ArtifactTree(op.file), "server-data"), "c", "c_version")
     \/ /\ ~TierCApplies
        /\ pc' = "c_version"
        /\ UNCHANGED <<dep, data, dirs, op, faults>>
  /\ UNCHANGED <<conf, scratch, reply, cache, prev, running, sbk, dbk, hist, ops>>

\* create_version_file 1585-1593: write version.txt; an error is logged and
\* swallowed.
CreateVersionFile(t, artifact_number, writeOk) ==
  IF writeOk THEN [t EXCEPT !.f["version.txt"] = artifact_number] ELSE t

\* copy_server_files 1741-1752: version.txt, then the result is returned.
CVersion ==
  /\ pc = "c_version"
  /\ \E writeOk \in BOOLEAN :
       /\ writeOk \/ CanFail
       /\ dep' = CreateVersionFile(dep, op.n, writeOk)
       /\ faults' = IF writeOk THEN faults ELSE faults + 1
  /\ op' = [op EXCEPT !.apply = "returned", !.log = Append(@, "replaced")]
  /\ pc' = "u_start"
  /\ UNCHANGED <<conf, scratch, dirs, reply, cache, prev, running, data, sbk, dbk, hist, ops>>

\* update_server 595-611: start the process again, report success.
UStart ==
  /\ pc = "u_start"
  /\ \/ /\ ~mgmt
        /\ pc' = "done"
        /\ op' = [op EXCEPT !.res = "ok"]
        /\ UNCHANGED <<running, faults>>
     \/ /\ mgmt
        /\ \E o \in StartServer(cfg, running) :
             /\ o.fault => CanFail
             /\ running' = o.up
             /\ faults' = IF o.fault THEN faults + 1 ELSE faults
             /\ pc' = IF o.res = "ok" THEN "done" ELSE "u_except"
             /\ op' = [op EXCEPT !.res = (IF o.res = "ok" THEN "ok" ELSE @),
                                 !.starts = @ + 1, !.log = Append(@, "start")]
  /\ UNCHANGED <<conf, scratch, dirs, reply, cache, prev, dep, data, sbk, dbk, hist, ops>>

\* Faulty variant: the handler puts the tree of the safety backup back.
ExceptRestoring(at) ==
  /\ pc = at
  /\ dep' = IF op.newbk \in DOMAIN sbk THEN sbk[op.newbk] ELSE dep
  /\ running' = mgmt
  /\ op' = [op EXCEPT !.res = "failed", !.starts = @ + (IF mgmt THEN 1 ELSE 0)]
  /\ pc' = "done"
  /\ UNCHANGED <<conf, scratch, dirs, reply, cache, prev, data, sbk, dbk, hist, ops, faults>>

\* Faulty variant: the handler reports the failure and starts nothing.
HandlerReporting(at, extra) ==
  /\ pc = at
  /\ op' = [op EXCEPT !.res = "failed", !.restart = "skipped"]
  /\ pc' = "done"
  /\ UNCHANGED <<conf, scratch, dirs, reply, cache, prev, running, dep, data, sbk, dbk,
                 hist, ops, faults>>

\* Faulty variant: a start that fails in the handler is tried again.
HandlerRetrying(at, extra) ==
  /\ pc = at
  /\ \/ /\ ~mgmt
        /\ op' = [op EXCEPT !.res = "failed", !.restart = "skipped"]
        /\ UNCHANGED <<running, faults>>
     \/ /\ mgmt
        /\ running' = TRUE
        /\ op' = [op EXCEPT !.res = "failed", !.starts = @ + 1, !.restart = "ok"]
        /\ UNCHANGED faults
     \/ /\ mgmt
        /\ faults < MaxFaults + extra
        /\ faults' = faults + 1
        /\ running' = TRUE
        /\ op' = [op EXCEPT !.res = "failed", !.starts = @ + 2, !.restart = "ok"]
  /\ pc' = "done"
  /\ UNCHANGED <<conf, scratch, dirs, reply, cache, prev, dep, data, sbk, dbk, hist, ops>>

\* update_server 613-626 and rollback_server 1035-1046: report the failure
\* ("Update failed" / "Rollback failed") and, when process management is
\* configured, make one attempt to start the process in a try of its own,
\* reported as "Server restarted" or "Failed to restart server"; no tree is
\* touched.  The attempt may fail while fewer than MaxFaults + extra
\* failures have happened.
Handler(at, extra) ==
  /\ pc = at
  /\ \/ /\ ~mgmt
        /\ op' = [op EXCEPT !.res = "failed", !.restart = "skipped"]
        /\ UNCHANGED <<running, faults>>
     \/ /\ mgmt
        /\ \E o \in StartServer(cfg, running) :
             /\ o.fault => faults < MaxFaults + extra
             /\ running' = o.up
             /\ faults' = IF o.fault THEN faults + 1 ELSE faults
             /\ op' = [op EXCEPT !.res = "failed", !.starts = @ + 1,
                                 !.restart = IF o.res = "ok" THEN "ok" ELSE "failed",
                                 !.log = Append(@, "restart")]
  /\ pc' = "done"
  /\ UNCHANGED <<conf, scratch, dirs, reply, cache, prev, dep, data, sbk, dbk, hist, ops>>

Except(at) == Handler(at, 0)

UExcept == Except("u_except")

\* update_server 633-640: the archive the update used is unlinked when
\* downloaded files are not kept.
Discards == op.cmd = "update" /\ op.file # 0 /\ ~keep

\* The command returns; update_server's finally clause (628-640) removes its
\* scratch directory and, when files are not kept, the archive.  A failure
\* to unlink is logged and swallowed.  shutil.rmtree (631) is not in a try:
\* when it raises, the directory stays, the lines after it are skipped and
\* the exception leaves the command.  rmtreeMayRaise says whether the
\* specification follows that outcome.
Finally(rmtreeMayRaise) ==
  /\ pc = "done"
  /\ pc' = "idle"
  /\ hist' = IF op.cmd = "update" /\ op.apply = "returned"
               THEN [n1 |-> hist.n2, t1 |-> hist.t2, n2 |-> op.n, t2 |-> dep,
                     bk2 |-> op.bk]
               ELSE NoHist
  /\ prev' = IF op.cmd = "download"
               THEN [n |-> op.n, force |-> op.force,
                     had |-> ExistingFiles(op.preCache, op.n) # {},
                     list |-> op.list, gets |-> op.gets, file |-> op.file,
                     res |-> op.res]
               ELSE NoPrev
  /\ \/ /\ tmp' = tmp \ {op.tmp}
        /\ cache' = IF Discards THEN Unlink(cache, {op.file}) ELSE cache
        /\ UNCHANGED faults
     \/ /\ Discards
        /\ CanFail
        /\ tmp' = tmp \ {op.tmp}
        /\ cache' = cache
        /\ faults' = faults + 1
     \/ /\ rmtreeMayRaise
        /\ op.tmp \in tmp
        /\ CanFail
        /\ tmp' = tmp
        /\ cache' = cache
        /\ faults' = faults + 1
  /\ op' = NoOp
  /\ UNCHANGED <<conf, now, dirs, reply, running, dep, data, sbk, dbk, ops>>

Return == Finally(FALSE)

\* time.time() reaches the next second.
Second ==
  /\ now < MaxClock
  /\ now' = now + 1
  /\ UNCHANGED <<conf, tmp, dirs, reply, cache, prev, running, dep, data, sbk, dbk, pc,
                 op, hist, ops, faults>>

\* ------------------------------------------------------------ catalog
\* find_backup_directories 1758-1812: glob "<name>_backup*" beside
\* DeploymentPath and, when DataPath is configured, "<data_name>_backup*"
\* beside DataPath.  A "<name>_bak<k>" directory does not match.
Listed(m) == {x \in DOMAIN m : GlobBackup(Text(x))}

FindBackupDirectories ==
  {[ns |-> "s", name |-> x] : x \in Listed(sbk)} \cup
  (IF dataCfg THEN {[ns |-> "d", name |-> x] : x \in Listed(dbk)} ELSE {})

BackupTree(b) == IF b.ns = "s" THEN sbk[b.name] ELSE dbk[b.name]

\* 1774-1778, 1806: the type of a listed directory.
Classify(b) ==
  IF b.ns = "d" THEN "server-data"
  ELSE IF SubTree(sbk[b.name], "ServerData").ex THEN "server+data" ELSE "server"

\* backup_entry 1780-1786, 1801-1807
Entry(b) ==
  [ns |-> b.ns, name |-> b.name, created |-> StCtime(dirs, b), type |-> Classify(b)]

\* The orders in which the two globs (1769, 1797) may enumerate the
\* directories: those beside DeploymentPath first, each group in any order.
Enumerations ==
  {p \o q : p \in Perms({Entry(b) : b \in {x \in FindBackupDirectories : x.ns = "s"}}),
            q \in Perms({Entry(b) : b \in {x \in FindBackupDirectories : x.ns = "d"}})}

\* list.sort(key=created, reverse=True) of 1811, which is stable: x goes
\* behind the entries that are as new as x or newer.
Insert(sorted, x) ==
  LET k == Cardinality({i \in DOMAIN sorted : sorted[i].created >= x.created})
  IN SubSeq(sorted, 1, k) \o <<x>> \o SubSeq(sorted, k + 1, Len(sorted))

RECURSIVE SortNewestFirst(_)
SortNewestFirst(q) ==
  IF q = <<>> THEN <<>>
  ELSE Insert(SortNewestFirst(SubSeq(q, 1, Len(q) - 1)), q[Len(q)])

\* The lists find_backup_directories may return.
FindBackupLists == {SortNewestFirst(e) : e \in Enumerations}

\* ------------------------------------------------------------ rollback
\* The backup names a command may be given: every directory that was made
\* as a backup, listed by the catalog or not, and a name no directory has.
MissingName == VerName(MaxArtifact + 1, 0)

Requests ==
  {[ns |-> "s", name |-> x] : x \in DOMAIN sbk \cup {MissingName}} \cup
  {[ns |-> "d", name |-> x] : x \in DOMAIN dbk}

\* Faulty variant: the name is taken for a backup without looking it up.
BackupFoundAlways(catalog, b) == TRUE

\* for backup in backups: if backup['name'] == backup_name (991-994)
BackupFound(catalog, b) == b \in catalog

\* rollback_server 974-1004: look the named backup up in the catalog; an
\* unknown name is reported and the command returns (996-998).  An error
\* while the directories are scanned reaches the handler (1035).
Rollback(limit) ==
  /\ pc = "idle"
  /\ ops < limit
  /\ Allowed
  /\ Accepted
  /\ ops' = ops + 1
  /\ \/ \E b \in Requests :
          /\ op' = [NoOp EXCEPT !.cmd = "rollback", !.ns = b.ns, !.target = b.name,
                                !.res = IF BackupFound(FindBackupDirectories, b)
                                          THEN "none" ELSE "notfound",
                                !.preDep = dep, !.preData = data,
                                !.preS = sbk, !.preD = dbk, !.preCache = cache,
                        !.preRun = running]
          /\ pc' = IF BackupFound(FindBackupDirectories, b) THEN "r_stop" ELSE "done"
          /\ UNCHANGED faults
     \/ /\ CanFail
        /\ op' = [NoOp EXCEPT !.cmd = "rollback",
                              !.preDep = dep, !.preData = data,
                              !.preS = sbk, !.preD = dbk, !.preCache = cache,
                        !.preRun = running]
        /\ pc' = "r_except"
        /\ faults' = faults + 1
  /\ reply' = NoReply
  /\ UNCHANGED <<conf, scratch, dirs, cache, prev, running, dep, data, sbk, dbk, hist>>

\* rollback_server 1006-1012: stop_server when management is configured.
RStop ==
  /\ pc = "r_stop"
  /\ \/ /\ ~mgmt
        /\ pc' = "r_backup"
        /\ UNCHANGED <<running, op, faults>>
     \/ /\ mgmt
        /\ \E o \in StopServer(cfg, running) :
             /\ o.fault => CanFail
             /\ running' = o.up
             /\ faults' = IF o.fault THEN faults + 1 ELSE faults
             /\ pc' = IF o.res = "ok" THEN "r_backup" ELSE "r_except"
             /\ op' = [op EXCEPT !.stopped = (o.res = "ok")]
  /\ UNCHANGED <<conf, scratch, dirs, reply, cache, prev, dep, data, sbk, dbk, hist, ops>>

\* Faulty variant: the rollback moves DataPath aside as well.
RBackupAlsoData ==
  /\ pc = "r_backup"
  /\ dep.ex
  /\ sbk' = MoveTo(sbk, CreateBackupName(DOMAIN sbk, GetCurrentVersion(dep, TRUE), 0), dep)
  /\ dep' = AbsentTree
  /\ dbk' = MoveTo(dbk, CreateBackupName(DOMAIN dbk, 0, 0), data)
  /\ data' = AbsentTree
  /\ dirs' = Renamed(dirs, LiveDep,
                     Backup("s", CreateBackupName(DOMAIN sbk, GetCurrentVersion(dep, TRUE), 0)),
                     FALSE, FALSE)
  /\ op' = [op EXCEPT !.newbk = CreateBackupName(DOMAIN sbk, GetCurrentVersion(dep, TRUE), 0)]
  /\ pc' = "r_restore"
  /\ UNCHANGED <<conf, scratch, reply, cache, prev, running, hist, ops, faults>>

\* rollback_server 1014-1018: name a backup for the current tree and move
\* DeploymentPath there; the move raises when DeploymentPath is missing.
RBackup ==
  /\ pc = "r_backup"
  /\ \/ /\ dep.ex
        /\ \E readOk \in BOOLEAN :
             /\ readOk \/ (CanFail /\ dep.f["version.txt"] # 0)
             /\ LET name == CreateBackupName(DOMAIN sbk,
                                             GetCurrentVersion(dep, readOk), 0)
                IN /\ sbk' = MoveTo(sbk, name, dep)
                   /\ dep' = AbsentTree
                   /\ dirs' = Renamed(dirs, LiveDep, Backup("s", name),
                                      name \in DOMAIN sbk, FALSE)
                   /\ op' = [op EXCEPT !.newbk = name, !.unread = ~readOk]
             /\ faults' = IF readOk THEN faults ELSE faults + 1
        /\ pc' = "r_restore"
     \/ /\ ~dep.ex
        /\ pc' = "r_except"
        /\ UNCHANGED <<dep, sbk, dirs, op, faults>>
     \/ /\ dep.ex
        /\ CanFail
        /\ pc' = "r_except"
        /\ faults' = faults + 1
        /\ UNCHANGED <<dep, sbk, dirs, op>>
  /\ UNCHANGED <<conf, scratch, reply, cache, prev, running, data, dbk, hist, ops>>

\* rollback_server 1020-1022: shutil.copytree(backup, DeploymentPath).  A
\* failure leaves the part copied so far, or no directory at all.
RRestore ==
  /\ pc = "r_restore"
  /\ LET src == BackupTree([ns |-> op.ns, name |-> op.target])
     IN \/ /\ dep' = CopyEntries(src, EmptyTree, Entries(src))
           /\ dirs' = Created(dirs, LiveDep)
           /\ pc' = "r_start"
           /\ UNCHANGED faults
        \/ /\ CanFail
           /\ \/ /\ dep' = AbsentTree
                 /\ UNCHANGED dirs
              \/ \E K \in SUBSET Entries(src) :
                   /\ K # Entries(src)
                   /\ dep' = CopyEntries(src, EmptyTree, K)
                   /\ dirs' = Created(dirs, LiveDep)
           /\ pc' = "r_except"
           /\ faults' = faults + 1
  /\ UNCHANGED <<conf, scratch, reply, cache, prev, running, data, sbk, dbk, op, hist,
                 ops>>

\* rollback_server 1024-1033: start the process again, report success.
RStart ==
  /\ pc = "r_start"
  /\ \/ /\ ~mgmt
        /\ pc' = "done"
        /\ op' = [op EXCEPT !.res = "ok"]
        /\ UNCHANGED <<running, faults>>
     \/ /\ mgmt
        /\ \E o \in StartServer(cfg, running) :
             /\ o.fault => CanFail
             /\ running' = o.up
             /\ faults' = IF o.fault THEN faults + 1 ELSE faults
             /\ pc' = IF o.res = "ok" THEN "done" ELSE "r_except"
             /\ op' = [op EXCEPT !.res = (IF o.res = "ok" THEN "ok" ELSE @),
                                 !.starts = @ + 1]
  /\ UNCHANGED <<conf, scratch, dirs, reply, cache, prev, dep, data, sbk, dbk, hist, ops>>

RExcept == Except("r_except")

\* ------------------------------------------------------------ backups delete
\* Faulty variant: the parent directory is emptied.
DeleteBackupDirectoryAll(m, name) == NoBackups

\* delete_backup_directory 1814-1825: rmtree of an existing directory.
DeleteBackupDirectory(m, name) == IF name \in DOMAIN m THEN Remove(m, {name}) ELSE m

\* What delete_backup_directory returns (1818-1822).
DeleteReturns(m, name) == name \in DOMAIN m

\* shutil.rmtree that raises part-way: the entries K are gone, the rest and
\* the directory itself are still there.
PartlyRemoved(m, name, K) ==
  [m EXCEPT ![name] = [ex |-> TRUE,
                       f |-> [p \in Paths |-> IF Top(p) \in K THEN 0 ELSE m[name].f[p]]]]

\* The directories of the list l, of name space ns.
NamesOf(l, ns) == {l[i].name : i \in {j \in DOMAIN l : l[j].ns = ns}}

\* manage_backups 884-934, "delete <env> <name>": the listed backup of that
\* name is removed; a name that is not listed is reported (927-929), and so
\* is an error of rmtree (939).
DeleteNamed(limit) ==
  /\ pc = "idle"
  /\ ops < limit
  /\ Allowed
  /\ Accepted
  /\ ops' = ops + 1
  /\ FindBackupDirectories # {}
  /\ \E b \in FindBackupDirectories \cup {Backup("s", MissingName)} :
       LET m == IF b.ns = "s" THEN sbk ELSE dbk
       IN \/ /\ ~BackupFound(FindBackupDirectories, b)
             /\ reply' = Answer("delete", "notfound")
             /\ UNCHANGED <<sbk, dbk, dirs, faults>>
          \/ /\ BackupFound(FindBackupDirectories, b)
             /\ sbk' = IF b.ns = "s" THEN DeleteBackupDirectory(sbk, b.name) ELSE sbk
             /\ dbk' = IF b.ns = "d" THEN DeleteBackupDirectory(dbk, b.name) ELSE dbk
             /\ dirs' = Deleted(dirs, {b})
             /\ reply' = [Answer("delete", IF DeleteReturns(m, b.name)
                                             THEN "deleted" ELSE "failed")
                            EXCEPT !.count = IF DeleteReturns(m, b.name) THEN 1 ELSE 0]
             /\ UNCHANGED faults
          \/ /\ BackupFound(FindBackupDirectories, b)
             /\ CanFail
             /\ \E K \in SUBSET Entries(m[b.name]) :
                  /\ K # Entries(m[b.name])
                  /\ sbk' = IF b.ns = "s" THEN PartlyRemoved(sbk, b.name, K) ELSE sbk
                  /\ dbk' = IF b.ns = "d" THEN PartlyRemoved(dbk, b.name, K) ELSE dbk
             /\ reply' = Answer("delete", "error")
             /\ faults' = faults + 1
             /\ UNCHANGED dirs
  /\ hist' = NoHist
  /\ prev' = NoPrev
  /\ UNCHANGED <<conf, scratch, cache, running, dep, data, pc, op>>

\* manage_backups 911-918, "delete <env> all": the listed backups are removed
\* in the order of the list; an error of rmtree ends the loop (939).
DeleteAll(limit) ==
  /\ pc = "idle"
  /\ ops < limit
  /\ Allowed
  /\ Accepted
  /\ ops' = ops + 1
  /\ FindBackupDirectories # {}
  /\ \/ /\ sbk' = Remove(sbk, {b.name : b \in {x \in FindBackupDirectories : x.ns = "s"}})
        /\ dbk' = Remove(dbk, {b.name : b \in {x \in FindBackupDirectories : x.ns = "d"}})
        /\ dirs' = Deleted(dirs, FindBackupDirectories)
        /\ reply' = [Answer("delete", "deleted") EXCEPT
                       !.count = Cardinality(FindBackupDirectories)]
        /\ UNCHANGED faults
     \/ /\ CanFail
        /\ \E l \in FindBackupLists :
             \E i \in DOMAIN l :
               LET gone == SubSeq(l, 1, i - 1)
                   m == IF l[i].ns = "s" THEN sbk ELSE dbk
               IN \E K \in SUBSET Entries(m[l[i].name]) :
                    /\ K # Entries(m[l[i].name])
                    /\ sbk' = IF l[i].ns = "s"
                                THEN PartlyRemoved(Remove(sbk, NamesOf(gone, "s")),
                                                   l[i].name, K)
                                ELSE Remove(sbk, NamesOf(gone, "s"))
                    /\ dbk' = IF l[i].ns = "d"
                                THEN PartlyRemoved(Remove(dbk, NamesOf(gone, "d")),
                                                   l[i].name, K)
                                ELSE Remove(dbk, NamesOf(gone, "d"))
                    /\ dirs' = Deleted(dirs, {Backup(gone[j].ns, gone[j].name) :
                                                j \in DOMAIN gone})
        /\ reply' = Answer("delete", "error")
        /\ faults' = faults + 1
  /\ hist' = NoHist
  /\ prev' = NoPrev
  /\ UNCHANGED <<conf, scratch, cache, running, dep, data, pc, op>>

\* ------------------------------------------------------------ other commands
\* manage_backups 845-882, "list <env>": the catalog is shown.
ListBackups(limit) ==
  /\ pc = "idle"
  /\ ops < limit
  /\ Allowed
  /\ Accepted
  /\ ops' = ops + 1
  /\ \E l \in FindBackupLists :
       reply' = [Answer("list", IF l = <<>> THEN "nobackups" ELSE "ok") EXCEPT !.list = l]
  /\ hist' = NoHist
  /\ prev' = NoPrev
  /\ UNCHANGED <<conf, scratch, dirs, cache, running, dep, data, sbk, dbk, pc, op, faults>>

\* The points at which an update (555-575, 595-597) or a rollback
\* (1008-1026) in flight is suspended in an await (a message being sent, a
\* sleep) and the event loop runs the handler of another command:
\* before and after its stop, between the rename and the copy of a rollback,
\* and before its start.  copy_server_files has no await.
AwaitPoints == {"u_stop", "c_bkdep", "u_start", "r_stop", "r_backup", "r_restore", "r_start"}

\* check_status 643-723 for one environment: version.txt is read and, when
\* process management is configured, get_server_status is asked; without it
\* the answer is "File operations only".  The command runs while pc is one of
\* points.
CheckStatusAt(limit, points) ==
  /\ pc \in points
  /\ ops < limit
  /\ Allowed
  /\ Accepted
  /\ ops' = ops + 1
  /\ IF ~mgmt
       THEN /\ reply' = [Answer("status", "ok") EXCEPT
                           !.status = "file_only",
                           !.version = GetCurrentVersion(dep, TRUE)]
            /\ UNCHANGED faults
       ELSE \E o \in GetServerStatus(cfg, running) :
              /\ o.fault => CanFail
              /\ faults' = IF o.fault THEN faults + 1 ELSE faults
              /\ reply' = [Answer("status", "ok") EXCEPT
                             !.status = o.res, !.calls = Calls(cfg, "status"),
                             !.version = GetCurrentVersion(dep, TRUE)]
  /\ hist' = IF pc = "idle" THEN NoHist ELSE hist
  /\ prev' = IF pc = "idle" THEN NoPrev ELSE prev
  /\ UNCHANGED <<conf, scratch, dirs, cache, running, dep, data, sbk, dbk, pc, op>>

CheckStatus(limit) == CheckStatusAt(limit, {"idle"})

\* The start (to = TRUE, 1255-1315) and stop (to = FALSE, 1192-1252)
\* commands: refused without process management, else start_server or
\* stop_server, whose error is reported.  The command runs while pc is one of
\* points.
ControlAt(to, limit, points) ==
  /\ pc \in points
  /\ ops < limit
  /\ Allowed
  /\ Accepted
  /\ ops' = ops + 1
  /\ LET command == IF to THEN "start" ELSE "stop"
     IN IF ~mgmt
          THEN /\ reply' = Answer(command, "refused")
               /\ UNCHANGED <<running, faults>>
          ELSE \E o \in ServerCall(command, cfg, running) :
                 /\ o.fault => CanFail
                 /\ running' = o.up
                 /\ faults' = IF o.fault THEN faults + 1 ELSE faults
                 /\ reply' = [Answer(command, o.res) EXCEPT
                                !.calls = Calls(cfg, command)]
  /\ hist' = IF pc = "idle" THEN NoHist ELSE hist
  /\ prev' = IF pc = "idle" THEN NoPrev ELSE prev
  /\ UNCHANGED <<conf, scratch, dirs, cache, dep, data, sbk, dbk, pc, op>>

Control(to, limit) == ControlAt(to, limit, {"idle"})

StartCmd(limit) == Control(TRUE, limit)

StopCmd(limit) == Control(FALSE, limit)

\* stop_server, start_server or get_server_status applied to the
\* configuration of the environment, whatever management it has.
CallServer(command, limit) ==
  /\ pc = "idle"
  /\ ops < limit
  /\ Accepted
  /\ ops' = ops + 1
  /\ \E o \in ServerCall(command, cfg, running) :
       /\ o.fault => CanFail
       /\ running' = o.up
       /\ faults' = IF o.fault THEN faults + 1 ELSE faults
       /\ reply' = [Answer("call", o.res) EXCEPT !.status = command,
                                                 !.calls = Calls(cfg, command)]
  /\ hist' = NoHist
  /\ prev' = NoPrev
  /\ UNCHANGED <<conf, scratch, dirs, cache, dep, data, sbk, dbk, pc, op>>

\* The commands that name an environment and act on it.
EnvCommands == {"update", "rollback", "start", "stop", "list", "delete"}

\* A command whose environment does not pass the checks: the token is
\* refused (516-518, 974-976, 1221-1223, 850-852, 889-891), the section is
\* missing (521-523, 979-981, 1226-1229, 854-857, 893-896), or
\* get_server_config raises (121-132), which ends the command: in update,
\* rollback, start and stop the call is outside every try, in backups the
\* handler of 939-940 reports it.
Rejected(cmd, token, limit) ==
  /\ pc = "idle"
  /\ ops < limit
  /\ Allowed
  /\ Validate(token, cfg) # "ok"
  /\ ops' = ops + 1
  /\ reply' = Answer(cmd, Validate(token, cfg))
  /\ hist' = NoHist
  /\ prev' = NoPrev
  /\ UNCHANGED <<conf, scratch, dirs, cache, running, dep, data, sbk, dbk, pc, op, faults>>

\* A command that fails check_permissions or check_channel (487-496,
\* 948-957 and alike): a message at most, and it returns.
Denied(cmd, limit) ==
  /\ pc = "idle"
  /\ ops < limit
  /\ ~Allowed
  /\ ops' = ops + 1
  /\ reply' = Answer(cmd, IF ~CheckPermissions(gate, ctx) THEN "denied"
                          ELSE "elsewhere")
  /\ hist' = NoHist
  /\ prev' = NoPrev
  /\ UNCHANGED <<conf, scratch, dirs, cache, running, dep, data, sbk, dbk, pc, op, faults>>

\* ------------------------------------------------------------ specification
Resolve == VLookup \/ VList \/ VGet \/ VReturn \/ VRaise

\* The steps of the commands outside their failure handlers.
Body ==
  \/ Resolve \/ UExtract
  \/ UStop \/ CBackupDep \/ CBackupData \/ CInstall
  \/ CTierA \/ CTierB \/ CTierC \/ CVersion \/ UStart
  \/ RStop \/ RBackup \/ RRestore \/ RStart

Work == Body \/ Return

Steps == Work \/ UExcept \/ RExcept

Commands(limit) ==
  \/ \E n \in Artifacts : Update(n, limit)
  \/ Rollback(limit)
  \/ DeleteNamed(limit)
  \/ DeleteAll(limit)

Next == Commands(MaxOps) \/ Steps

\* The update, rollback and delete commands under the default
\* keep_downloaded_files = true: on every initial tree without process
\* management, and with process management (whose calls read no tree) on a
\* manual install with data in ServerData and in DataPath.
InitKeep ==
  /\ Init
  /\ keep
  /\ cfg = Plain(mgmt)
  /\ posix
  /\ dirs = DepFirst(dep, data)
  /\ mgmt => /\ dep.ex /\ dep.f["a"] = Legacy /\ dep.f["ServerData/d"] = Stale
             /\ dataCfg => data.ex /\ data.f["d"] = Cur /\ data.f["e"] = Cur

Spec == InitKeep /\ [][Next]_vars

\* Longer command sequences on a file-only environment (no process
\* management) whose DeploymentPath holds a manual install.
InitSeq ==
  /\ InitKeep
  /\ ~mgmt
  /\ dep.ex /\ dep.f["a"] = Legacy

NextSeq == Commands(MaxSeqOps) \/ Steps

SpecSeq == InitSeq /\ [][NextSeq]_vars

\* The longest sequences, for the names backups get: the same environment,
\* in behaviours where no step fails.
InitNames ==
  /\ dataCfg \in BOOLEAN
  /\ mgmt = FALSE
  /\ running = TRUE
  /\ dep \in {t \in InitDep : t.ex /\ t.f["a"] = Legacy /\ t.f["ServerData/d"] = 0}
  /\ data \in (IF dataCfg THEN {t \in InitData : t.f["d"] = Cur /\ t.f["e"] = 0}
                          ELSE {AbsentTree})
  /\ sbk = NoBackups
  /\ dbk = NoBackups
  /\ pc = "idle"
  /\ op = NoOp
  /\ hist = NoHist
  /\ ops = 0
  /\ faults = MaxFaults
  /\ keep = TRUE
  /\ cache = EmptyCache
  /\ prev = NoPrev
  /\ cfg = Plain(mgmt)
  /\ posix = TRUE
  /\ dirs = DepFirst(dep, data)
  /\ reply = NoReply
  /\ now = 0
  /\ gate = NoGate
  /\ ctx = Anyone
  /\ tmp = {}

NextNames ==
  \/ Commands(MaxNameOps)
  \/ VLookup \/ VList \/ VGet \/ VReturn \/ UExtract
  \/ UStop \/ CBackupDep \/ CBackupData \/ CInstall
  \/ CTierA \/ CTierB \/ CTierC \/ CVersion \/ UStart
  \/ RStop \/ RBackup \/ RRestore \/ RStart
  \/ Return

SpecNames == InitNames /\ [][NextNames]_vars

\* The artifact cache alone: download commands for every id, cleanups and
\* the passing of days, on an environment that is left as it is.
InitCache ==
  /\ InitKeep
  /\ ~dataCfg /\ ~mgmt
  /\ ~dep.ex

NextCache ==
  \/ \E n \in CacheIds, force \in BOOLEAN : Download(n, force, MaxCacheOps)
  \/ \E days \in Days : Cleanup(days, MaxCacheOps)
  \/ Tick
  \/ VLookup \/ VList \/ VGet \/ VReturn \/ VRaise
  \/ Return

SpecCache == InitCache /\ [][NextCache]_vars

\* Every command, on an environment with process management, a manual
\* install with data in ServerData and a DataPath with operator data.  The
\* download directory is empty, or holds two archives earlier runs of the
\* bot downloaded, one MaxAge days ago and one the day after.
InitAll ==
  /\ dataCfg = TRUE
  /\ mgmt = TRUE
  /\ running = TRUE
  /\ dep = [ex |-> TRUE, f |-> [ZeroF EXCEPT !["a"] = Legacy, !["ServerData/d"] = Stale]]
  /\ data = [ex |-> TRUE, f |-> [ZeroF EXCEPT !["d"] = Cur]]
  /\ sbk = NoBackups
  /\ dbk = NoBackups
  /\ pc = "idle"
  /\ op = NoOp
  /\ hist = NoHist
  /\ ops = 0
  /\ faults = 0
  /\ keep \in BOOLEAN
  /\ cache \in {EmptyCache,
                [EmptyCache EXCEPT ![1] = [st |-> "full", age |-> MaxAge],
                                   ![2] = [st |-> "full", age |-> MaxAge - 1]]}
  /\ keep \/ cache # EmptyCache    \* archives are discarded from a filled cache
  /\ prev = NoPrev
  /\ cfg = Plain(mgmt)
  /\ posix = TRUE
  /\ dirs = DepFirst(dep, data)
  /\ reply = NoReply
  /\ now = 0
  /\ gate = NoGate
  /\ ctx = Anyone
  /\ tmp = {}

NextAll ==
  \/ Commands(MaxAllOps)
  \/ \E n \in Artifacts, force \in BOOLEAN : Download(n, force, MaxAllOps)
  \/ \E days \in Days : Cleanup(days, MaxAllOps)
  \/ ListBackups(MaxAllOps) \/ CheckStatus(MaxAllOps)
  \/ StartCmd(MaxAllOps) \/ StopCmd(MaxAllOps)
  \/ Steps

SpecAll == InitAll /\ [][NextAll]_vars

\* Updates and rollbacks on an environment that a first update has left:
\* artifact 1 was installed over a manual install, which is in the backup
\* the update made, and the operator data of a configured DataPath was moved
\* to a backup and restored.
Installed1 ==
  [ex |-> TRUE,
   f |-> [ZeroF EXCEPT !["b"] = 1, !["server-data/d"] = 1, !["version.txt"] = 1,
                       !["ServerData/d"] = IF dataCfg THEN 0 ELSE 1]]

Manual == [ex |-> TRUE, f |-> [ZeroF EXCEPT !["a"] = Legacy]]

OperatorData == [ex |-> TRUE, f |-> [ZeroF EXCEPT !["d"] = Cur]]

FirstUpdate(beside, besideData) ==
  /\ dep = Installed1
  /\ data = (IF dataCfg THEN OperatorData ELSE AbsentTree)
  /\ sbk = Put(beside, VerName(1, 0), Manual)
  /\ dbk = (IF dataCfg THEN Put(besideData, VerName(1, 0), OperatorData) ELSE besideData)
  /\ cache = [EmptyCache EXCEPT ![1] = NewFile("full")]
  /\ hist = [NoHist EXCEPT !.n2 = 1, !.t2 = Installed1, !.bk2 = VerName(1, 0)]
  /\ keep = TRUE
  /\ pc = "idle"
  /\ op = NoOp
  /\ prev = NoPrev
  /\ dirs = [born |-> Born(<<Backup("s", VerName(1, 0))>> \o
                      (IF dataCfg THEN <<Backup("d", VerName(1, 0))>> ELSE <<>>) \o
                      <<LiveDep>> \o (IF dataCfg THEN <<LiveData>> ELSE <<>>)),
             made |-> (IF DOMAIN beside \cup DOMAIN besideData = {} THEN <<>>
                       ELSE <<{Backup("s", x) : x \in DOMAIN beside} \cup
                              {Backup("d", x) : x \in DOMAIN besideData}>>) \o
                      <<{Backup("s", VerName(1, 0))} \cup
                        (IF dataCfg THEN {Backup("d", VerName(1, 0))} ELSE {})>>]
  /\ reply = NoReply
  /\ now = 0
  /\ tmp = {}

FirstUpdateDone == FirstUpdate(NoBackups, NoBackups)

AfterFirstUpdate == FirstUpdateDone /\ running = TRUE

InitRoll ==
  /\ gate = NoGate
  /\ ctx = Anyone
  /\ dataCfg \in BOOLEAN
  /\ mgmt \in BOOLEAN
  /\ cfg = Plain(mgmt)
  /\ posix = TRUE
  /\ AfterFirstUpdate
  /\ ops = 0
  /\ faults = 0

NextRoll ==
  \/ \E n \in Artifacts : Update(n, MaxRollOps)
  \/ Rollback(MaxRollOps)
  \/ Steps

SpecRoll == InitRoll /\ [][NextRoll]_vars

\* Updates and rollbacks with process management where the start attempt of
\* the failure handler may fail after the command failed on the last failure
\* allowed elsewhere: a controller that is down fails both.
InitFail == InitRoll /\ mgmt

NextFail ==
  \/ \E n \in Artifacts : Update(n, MaxFailOps)
  \/ Rollback(MaxFailOps)
  \/ Work
  \/ Handler("u_except", 1) \/ Handler("r_except", 1)

SpecFail == InitFail /\ [][NextFail]_vars

\* Every configuration of the environment section, complete or not, with
\* TCAdmin, a Windows service, both or neither enabled, after a first update
\* and with the process up or down;
\* the commands that name the environment, given a good or a bad token.
InitCtl ==
  /\ gate = NoGate
  /\ ctx = Anyone
  /\ dataCfg = TRUE
  /\ cfg \in Configs
  /\ mgmt = (cfg.tcadmin \/ cfg.service)
  /\ posix = TRUE
  /\ FirstUpdateDone
  /\ running \in BOOLEAN
  /\ ops = 0
  /\ faults = 0

NextCtl ==
  \/ \E n \in Artifacts : Update(n, MaxCtlOps)
  \/ Rollback(MaxCtlOps)
  \/ StartCmd(MaxCtlOps) \/ StopCmd(MaxCtlOps) \/ CheckStatus(MaxCtlOps)
  \/ \E command \in {"start", "stop", "status"} : CallServer(command, MaxCtlOps)
  \/ \E cmd \in EnvCommands, token \in Tokens : Rejected(cmd, token, MaxCtlOps)
  \/ Steps

SpecCtl == InitCtl /\ [][NextCtl]_vars

\* An update or a rollback with process management, and start, stop and
\* status commands that other users issue: discord.py runs every command
\* handler as a task of one event loop, and no handler takes a lock, so such
\* a command runs when no command is in flight or when the one in flight is
\* suspended.
InitConc == InitRoll /\ mgmt

NextConc ==
  \/ \E n \in Artifacts : Update(n, MaxConcOps)
  \/ Rollback(MaxConcOps)
  \/ Steps
  \/ ControlAt(TRUE, MaxConcOps, AwaitPoints \cup {"idle"})
  \/ ControlAt(FALSE, MaxConcOps, AwaitPoints \cup {"idle"})
  \/ CheckStatusAt(MaxConcOps, AwaitPoints \cup {"idle"})

SpecConc == InitConc /\ [][NextConc]_vars

\* The catalog on either platform: updates, rollbacks, deletions and
\* listings on a file-only environment whose directories the operator made in
\* either order, in behaviours where no step fails.
InitList ==
  /\ dataCfg \in BOOLEAN
  /\ mgmt = FALSE
  /\ running = TRUE
  /\ dep \in {t \in InitDep : t.ex /\ t.f["a"] = Legacy}
  /\ data \in (IF dataCfg THEN {t \in InitData : t.ex /\ t.f["e"] = 0}
                          ELSE {AbsentTree})
  /\ sbk = NoBackups
  /\ dbk = NoBackups
  /\ pc = "idle"
  /\ op = NoOp
  /\ hist = NoHist
  /\ ops = 0
  /\ faults = MaxFaults
  /\ keep = TRUE
  /\ cache = EmptyCache
  /\ prev = NoPrev
  /\ cfg = Plain(mgmt)
  /\ posix \in BOOLEAN
  /\ dirs \in {[born |-> Born(b), made |-> <<>>] : b \in Perms(LiveDirs(dep, data))}
  /\ reply = NoReply
  /\ now = 0
  /\ gate = NoGate
  /\ ctx = Anyone
  /\ tmp = {}

NextList ==
  \/ \E n \in Artifacts : Update(n, MaxListOps)
  \/ Rollback(MaxListOps)
  \/ DeleteNamed(MaxListOps)
  \/ ListBackups(MaxListOps)
  \/ VLookup \/ VList \/ VGet \/ VReturn \/ UExtract
  \/ UStop \/ CBackupDep \/ CBackupData \/ CInstall
  \/ CTierA \/ CTierB \/ CTierC \/ CVersion \/ UStart
  \/ RStop \/ RBackup \/ RRestore \/ RStart
  \/ Return

SpecList == InitList /\ [][NextList]_vars

\* Two environments side by side: beside DeploymentPath stand the
\* DeploymentPath of the other environment and the backup of an update of
\* that environment, beside DataPath its DataPath; the commands name this
\* environment.
LiveTree == [ex |-> TRUE, f |-> [ZeroF EXCEPT !["b"] = 2, !["version.txt"] = 2]]

LiveOld == [ex |-> TRUE, f |-> [ZeroF EXCEPT !["a"] = Legacy, !["version.txt"] = 1]]

LiveDataTree == [ex |-> TRUE, f |-> [ZeroF EXCEPT !["d"] = Stale]]

OtherBeside(i) == Put(Put(NoBackups, EnvName(i), LiveTree), EnvBackup(i, 1), LiveOld)

OtherBesideData(i) == Put(NoBackups, EnvName(i), LiveDataTree)

InitEnv ==
  /\ gate = NoGate
  /\ ctx = Anyone
  /\ dataCfg \in BOOLEAN
  /\ mgmt \in BOOLEAN
  /\ cfg = Plain(mgmt)
  /\ posix = TRUE
  /\ \E i \in DOMAIN OtherNames : FirstUpdate(OtherBeside(i), OtherBesideData(i))
  /\ running = TRUE
  /\ ops = 0
  /\ faults = 0

NextEnv ==
  \/ \E n \in Artifacts : Update(n, MaxEnvOps)
  \/ Rollback(MaxEnvOps)
  \/ DeleteNamed(MaxEnvOps) \/ DeleteAll(MaxEnvOps) \/ ListBackups(MaxEnvOps)
  \/ Steps

SpecEnv == InitEnv /\ [][NextEnv]_vars

\* Every command under every setting of the roles, users and channel that
\* may use it, for messages of an allowed and of another author, with and
\* without an allowed role, in the configured channel and in another one.
GateCommands ==
  {"download", "update", "status", "cleanup", "list", "delete", "rollback", "stop",
   "start"}

InitGate ==
  /\ gate \in Gates
  /\ ctx \in Contexts
  /\ dataCfg = TRUE
  /\ mgmt = TRUE
  /\ cfg = Plain(mgmt)
  /\ posix = TRUE
  /\ AfterFirstUpdate
  /\ ops = 0
  /\ faults = 0

NextGate ==
  \/ \E n \in Artifacts : Update(n, MaxGateOps)
  \/ Download(1, TRUE, MaxGateOps)
  \/ Cleanup(1, MaxGateOps)
  \/ Rollback(MaxGateOps)
  \/ DeleteNamed(MaxGateOps) \/ DeleteAll(MaxGateOps) \/ ListBackups(MaxGateOps)
  \/ StartCmd(MaxGateOps) \/ StopCmd(MaxGateOps) \/ CheckStatus(MaxGateOps)
  \/ \E cmd \in GateCommands : Denied(cmd, MaxGateOps)
  \/ Steps

SpecGate == InitGate /\ [][NextGate]_vars

\* Updates and rollbacks with and without keep_downloaded_files while the
\* clock runs, a removal of the scratch directory that raises included.
InitTmp ==
  /\ Init
  /\ cfg = Plain(mgmt)
  /\ posix
  /\ dirs = DepFirst(dep, data)

NextTmp ==
  \/ \E n \in Artifacts : Update(n, MaxTmpOps)
  \/ Rollback(MaxTmpOps)
  \/ Body \/ UExcept \/ RExcept
  \/ Finally(TRUE)
  \/ Second

SpecTmp == InitTmp /\ [][NextTmp]_vars

\* Updates whose file-lock check finds each of the runs of scans, on an
\* environment with and without process management.
NextLock ==
  \/ \E n \in Artifacts : Update(n, MaxLockOps)
  \/ Resolve \/ UExtract
  \/ UStopThen(TRUE) \/ CBackupDep \/ CBackupData \/ CInstall
  \/ CTierA \/ CTierB \/ CTierC \/ CVersion \/ UStart
  \/ UExcept
  \/ Return

SpecLock == InitRoll /\ [][NextLock]_vars

\* ------------------------------------------------------------ properties
Contains(t, pre) == \A p \in Paths : pre.f[p] # 0 => t.f[p] = pre.f[p]

NewNames(m) == DOMAIN m' \ DOMAIN m

\* The backups the apply in flight has made are still where it put them.
MadeBackupsExist ==
  /\ op.bk # NoName => op.bk \in DOMAIN sbk /\ sbk[op.bk] = op.preDep
  /\ op.dbk # NoName => op.dbk \in DOMAIN dbk /\ dbk[op.dbk] = op.preData

\* C1: an apply that reports success leaves the extracted tree in
\* DeploymentPath with version.txt equal to the requested artifact id; an
\* apply that reports failure leaves every backup it made in place.
C1_SuccessHasVersion ==
  /\ op.apply = "returned" =>
       /\ Contains(dep, ArtifactTree(op.n))
       /\ dep.f["version.txt"] = op.n
  /\ op.apply = "raised" => MadeBackupsExist

\* C2: when the data backup (tier a) restored entries, neither ServerData of
\* the deployment backup (tier b) nor server-data of the extracted tree
\* (tier c) is read; tier c is read only when a and b restored nothing.
C2_TiersExclusive ==
  /\ op.ra > 0 => "b" \notin op.used /\ "c" \notin op.used
  /\ "c" \in op.used => op.ra = 0 /\ op.rb = 0

\* C3: after apply(n1), apply(n2) and a rollback to the backup apply(n2)
\* made, DeploymentPath equals the tree apply(n1) installed, version.txt
\* included, and the rollback made exactly one new backup, named after n2.
C3Case ==
  /\ pc = "done" /\ op.cmd = "rollback" /\ op.res = "ok"
  /\ hist.n1 # 0 /\ hist.n2 # 0
  /\ op.ns = "s" /\ op.target = hist.bk2

C3_RollbackRestoresFirst ==
  C3Case =>
    /\ dep = hist.t1
    /\ dep.f["version.txt"] = hist.n1
    /\ \E x \in DOMAIN sbk :
         /\ DOMAIN sbk = DOMAIN op.preS \cup {x}
         /\ x \notin DOMAIN op.preS
         /\ x.kind = "ver" /\ x.v = hist.n2
    /\ DOMAIN dbk = DOMAIN op.preD

\* C4: after a successful apply on a non-empty DeploymentPath P, no entry of
\* P that the extracted tree lacks is left in DeploymentPath, exactly one new
\* backup exists and holds P, and version.txt equals the new artifact id.
\* Two entries are read as the apply's own: version.txt, which it writes
\* anew, and ServerData, which the data restore puts back below
\* DeploymentPath when no DataPath is configured.
OwnEntries == {"version.txt"} \cup (IF dataCfg THEN {} ELSE {"ServerData"})

C4_ApplyReplaces ==
  (op.apply = "returned" /\ NonEmpty(op.preDep)) =>
    /\ Contains(dep, ArtifactTree(op.n))
    /\ \A e \in Entries(op.preDep) \ (Entries(ArtifactTree(op.n)) \cup OwnEntries) :
         e \notin Entries(dep)
    /\ DOMAIN sbk = DOMAIN op.preS \cup {op.bk}
    /\ op.bk \notin DOMAIN op.preS
    /\ sbk[op.bk] = op.preDep
    /\ dep.f["version.txt"] = op.n

\* C5: after a successful apply with a configured, non-empty DataPath, every
\* entry DataPath held before is there with its content of before.
C5_DataPreserved ==
  (op.apply = "returned" /\ dataCfg /\ NonEmpty(op.preData)) =>
    Contains(data, op.preData)

\* C6: at every state of an update or rollback, failed ones included, the
\* DeploymentPath content of before the command is at DeploymentPath or in a
\* backup beside it, and the DataPath content of before is at DataPath or in
\* a backup beside it.
C6_NoOnlyCopyDestroyed ==
  op.cmd \in {"update", "rollback"} =>
    /\ \/ Contains(dep, op.preDep)
       \/ \E x \in DOMAIN sbk : sbk[x] = op.preDep
    /\ \/ Contains(data, op.preData)
       \/ \E x \in DOMAIN dbk : dbk[x] = op.preData

C6_Witness ==
  /\ pc = "done" /\ op.res = "failed"
  /\ NonEmpty(op.preDep) /\ ~Contains(dep, op.preDep)
  /\ dataCfg /\ NonEmpty(op.preData) /\ ~Contains(data, op.preData)

\* C7: once a step of apply has raised, the command is in the caller's
\* failure handler or past it, reports failure, and no tree or backup changes
\* any more: no later step of apply runs, and the backups the apply made are
\* neither deleted nor moved back.
C7_ErrorAbortsApply ==
  [][/\ op'.apply = "raised" =>
          /\ pc' \in {"u_except", "done"}
          /\ pc' = "done" => op'.res = "failed"
          /\ MadeBackupsExist'
     /\ op.apply = "raised" =>
          /\ op'.apply \in {"raised", "none"}
          /\ <<dep, data, sbk, dbk>>' = <<dep, data, sbk, dbk>>]_vars

C7_Witness ==
  /\ pc = "done" /\ op.apply = "raised" /\ op.res = "failed"
  /\ op.bk # NoName /\ op.dbk # NoName
  /\ dep # op.preDep

\* C8: the name a backup is created under is free in its parent directory
\* when it is chosen, is found within as many probes as names exist, and no
\* step of an update or a rollback changes the content of a backup that
\* exists before and after it.
SameBase(x, y) == x.kind = y.kind /\ x.v = y.v

Probes(x, existing) ==
  x.k <= Cardinality({y \in existing : SameBase(x, y)}) + (IF x.kind = "bak" THEN 1 ELSE 0)

C8_BackupNameFree ==
  [][/\ \A x \in NewNames(sbk) : Probes(x, DOMAIN sbk)
     /\ \A x \in NewNames(dbk) : Probes(x, DOMAIN dbk)
     /\ op'.bk # op.bk /\ op'.bk # NoName => op'.bk \in NewNames(sbk)
     /\ op'.dbk # op.dbk /\ op'.dbk # NoName => op'.dbk \in NewNames(dbk)
     /\ op'.newbk # op.newbk /\ op'.newbk # NoName => op'.newbk \in NewNames(sbk)
     /\ pc # "idle" =>
          /\ \A x \in DOMAIN sbk \cap DOMAIN sbk' : sbk'[x] = sbk[x]
          /\ \A x \in DOMAIN dbk \cap DOMAIN dbk' : dbk'[x] = dbk[x]]_vars

C8_Witness ==
  /\ \E x \in DOMAIN sbk : x.k >= 1 /\ VerName(x.v, 0) \in DOMAIN sbk
  /\ \E x \in DOMAIN dbk : x.k >= 1 /\ VerName(x.v, 0) \in DOMAIN dbk

\* C9 as stated: the suffix of a new backup's name is strictly greater than
\* the suffix of every existing backup of the same base name.
C9_SuffixAboveAll ==
  [][/\ \A x \in NewNames(sbk) : \A y \in DOMAIN sbk : SameBase(x, y) => x.k > y.k
     /\ \A x \in NewNames(dbk) : \A y \in DOMAIN dbk : SameBase(x, y) => x.k > y.k]_vars

\* C9 as amended: the name returned is the first free one of the sequence
\* <base>, <base>_1, <base>_2, ...: every earlier name of the sequence
\* exists, so the suffix exceeds every existing one when the existing names
\* have no gap.
FirstFree(x, existing) ==
  /\ x \notin existing
  /\ x.kind = "ver" => \A j \in 0..(x.k - 1) : VerName(x.v, j) \in existing
  /\ x.kind = "bak" => \A j \in 1..(x.k - 1) : BakName(j) \in existing

C9_FirstFreeSuffix ==
  [][/\ \A x \in NewNames(sbk) : FirstFree(x, DOMAIN sbk)
     /\ \A x \in NewNames(dbk) : FirstFree(x, DOMAIN dbk)]_vars

C9_Witness ==
  /\ pc = "c_bkdata"
  /\ op.bk \in DOMAIN sbk
  /\ \E y \in DOMAIN sbk : SameBase(op.bk, y) /\ y.k > op.bk.k

\* C10 as stated: a backup named <base>_backup_<v>[_<k>] holds the tree that
\* was installed as version v.
C10_NameIsTreeVersion ==
  /\ \A x \in DOMAIN sbk : x.kind = "ver" => sbk[x].f["version.txt"] = x.v
  /\ \A x \in DOMAIN dbk : x.kind = "ver" => dbk[x].f["version.txt"] = x.v

\* C10 as amended: a backup is named after the version.txt of the tree moved
\* into it when that file is there and was read; otherwise an update names it
\* after the artifact it installs and a rollback names it <base>_bak<k>.
NamedFor(x, t, readFailed) ==
  IF t.f["version.txt"] # 0 /\ ~readFailed
    THEN x.kind = "ver" /\ x.v = t.f["version.txt"]
    ELSE IF op.cmd = "update" THEN x.kind = "ver" /\ x.v = op.n
                              ELSE x.kind = "bak"

C10_NameFromVersionOrArtifact ==
  [][/\ \A x \in NewNames(sbk) : NamedFor(x, sbk'[x], faults' # faults)
     /\ \A x \in NewNames(dbk) : NamedFor(x, dbk'[x], faults' # faults)]_vars

C10_Witness ==
  /\ \E x \in DOMAIN sbk :
       x.kind = "ver" /\ sbk[x].f["version.txt"] = 0 /\ sbk[x].f["a"] = Legacy
  /\ \E x \in DOMAIN sbk :
       x.kind = "ver" /\ sbk[x].f["version.txt"] = x.v

\* C11: no step of any command removes a backup directory, except the step
\* of a backups-delete command, which removes the directory it names or, for
\* "all", the listed ones; every other step leaves the set of backup
\* directories as it is or adds to it.
Removed(m) == DOMAIN m \ DOMAIN m'

C11_BackupsOnlyGrow ==
  [][(Removed(sbk) \cup Removed(dbk)) # {} =>
       /\ DeleteNamed(MaxAllOps) \/ DeleteAll(MaxAllOps)
       /\ Removed(sbk) \subseteq Listed(sbk)
       /\ Removed(dbk) \subseteq Listed(dbk)]_vars

C11_Witness ==
  /\ pc = "done" /\ op.cmd = "rollback" /\ op.res = "ok"
  /\ Cardinality(DOMAIN sbk) = 2
  /\ dbk # NoBackups
  /\ ops = MaxAllOps

\* C12: a resolve without force that finds a matching file in the download
\* directory fetches neither the listing nor an archive; and of two download
\* commands in succession for an id no cached file matched, the first goes
\* to the network and the second returns the same file without doing so.
Resolving == op.cmd \in {"download", "update"}

TwiceInSuccession ==
  /\ pc = "done" /\ op.cmd = "download" /\ ~op.force
  /\ prev.n = op.n /\ ~prev.force /\ ~prev.had /\ prev.res = "ok"

C12_CacheHitNoNetwork ==
  /\ (Resolving /\ ~op.force /\ ExistingFiles(op.preCache, op.n) # {}) =>
       /\ op.list = "none" /\ op.gets = 0
       /\ op.file # 0 => op.file \in ExistingFiles(op.preCache, op.n)
       /\ pc = "done" => op.res = "ok"
  /\ TwiceInSuccession =>
       /\ prev.list = "found" /\ prev.gets = 1
       /\ op.res = "ok" /\ op.file = prev.file
       /\ op.list = "none" /\ op.gets = 0

C12_Witness == TwiceInSuccession

\* C13: a resolve without force returns only the archive downloaded for the
\* id it was asked for.
C13_CacheKeyedById ==
  (Resolving /\ ~op.force /\ op.file # 0) => op.file = op.n

\* C14: after a download that failed, for an id no cached file matched, no
\* file of the download directory matches the id, and the next download
\* command for that id goes to the network again.
C14_FailedDownloadLeavesNoHit ==
  /\ (Resolving /\ op.gets > 0 /\ op.file = 0 /\ pc # "v_get"
         /\ ExistingFiles(op.preCache, op.n) = {}) =>
       ExistingFiles(cache, op.n) = {}
  /\ (pc = "done" /\ op.cmd = "download" /\ ~op.force /\ prev.n = op.n
         /\ ~prev.had /\ prev.gets > 0 /\ prev.res = "failed") =>
       op.list # "none"

\* C15: when the listing has no anchor for the id, or its fetch failed, the
\* resolve raises, no archive is requested, no file is returned and the
\* download directory is as it was, also when the download was forced over a
\* cached file.
C15_NotFoundNoDownload ==
  op.list \in {"absent", "error"} =>
    /\ op.gets = 0
    /\ op.file = 0
    /\ cache = op.preCache
    /\ pc \in {"v_raise", "u_except", "done"}
    /\ pc = "done" => op.res = "failed"

C15_Witness ==
  /\ pc = "done" /\ op.cmd = "download" /\ op.force
  /\ op.list = "absent"
  /\ cache[op.n].st = "full"

\* What the catalog listed when the command was issued.
ListedBefore ==
  {[ns |-> "s", name |-> x] : x \in Listed(op.preS)} \cup
  (IF dataCfg THEN {[ns |-> "d", name |-> x] : x \in Listed(op.preD)} ELSE {})

Chosen == [ns |-> op.ns, name |-> op.target]

ChosenTree == IF op.ns = "s" THEN op.preS[op.target] ELSE op.preD[op.target]

Unfound == op.cmd = "rollback" /\ op.target # NoName /\ Chosen \notin ListedBefore

\* C16: a rollback to a name the catalog does not list reports not-found and
\* returns: the process was neither stopped nor started, DeploymentPath,
\* DataPath and the backups are as before, and no backup was made.
C16_NotFoundChangesNothing ==
  Unfound =>
    /\ pc = "done" /\ op.res = "notfound"
    /\ ~op.stopped /\ op.starts = 0 /\ running = op.preRun
    /\ dep = op.preDep /\ data = op.preData
    /\ sbk = op.preS /\ dbk = op.preD
    /\ op.newbk = NoName

C16_Witness ==
  /\ Unfound
  /\ op.target = MissingName
  /\ sbk # NoBackups

RolledBack == pc = "done" /\ op.cmd = "rollback" /\ op.res = "ok"

\* The tree that was live is in exactly one new backup, moved there: the
\* older backups are as they were.
MovedAside ==
  /\ op.newbk \notin DOMAIN op.preS
  /\ DOMAIN sbk = DOMAIN op.preS \cup {op.newbk}
  /\ sbk[op.newbk] = op.preDep
  /\ \A x \in DOMAIN op.preS : sbk[x] = op.preS[x]
  /\ dbk = op.preD

\* C17 as stated: a successful rollback has moved the tree that was live to
\* one new backup named <dir_name>_backup_<v>[_<k>], v being the version of
\* that tree (rollbacks in which reading version.txt failed aside).
C17_BackupNamedForVersion ==
  (RolledBack /\ ~op.unread) =>
    /\ MovedAside
    /\ op.newbk.kind = "ver"
    /\ op.newbk.v = op.preDep.f["version.txt"]

\* C17 as amended: a successful rollback has moved the tree that was live to
\* one new backup; its name is <dir_name>_backup_<v>[_<k>] when the tree had
\* a version.txt holding v that could be read, and <dir_name>_bak<k>
\* otherwise.
C17_BackupNamedOrNumbered ==
  RolledBack =>
    /\ MovedAside
    /\ IF op.preDep.f["version.txt"] # 0 /\ ~op.unread
         THEN op.newbk.kind = "ver" /\ op.newbk.v = op.preDep.f["version.txt"]
         ELSE op.newbk.kind = "bak"

C17_Witness ==
  /\ RolledBack
  /\ op.newbk.kind = "bak"
  /\ op.preDep.f["version.txt"] = 0
  /\ \E x \in DOMAIN sbk : x.kind = "ver" /\ x.k > 0

\* C18: at every state of a rollback the chosen backup is where it was,
\* with the content it had, and listed; a successful rollback leaves a copy
\* of it at DeploymentPath, so a second rollback to the same name finds the
\* same backup and leaves the same tree.
C18_ChosenBackupStays ==
  (op.cmd = "rollback" /\ op.target # NoName /\ ~Unfound) =>
    /\ Chosen \in FindBackupDirectories
    /\ BackupTree(Chosen) = ChosenTree
    /\ RolledBack => dep.ex /\ dep.f = ChosenTree.f

C18_Witness ==
  /\ RolledBack
  /\ op.preDep.f = ChosenTree.f
  /\ dep.f = op.preDep.f
  /\ op.newbk # op.target

\* C19: with a configured DataPath, at every state of a rollback, failed
\* ones included, DataPath and the backups beside it are as they were when
\* the rollback was issued.
C19_RollbackLeavesData ==
  (op.cmd = "rollback" /\ dataCfg) =>
    /\ data = op.preData
    /\ dbk = op.preD

C19_Witness ==
  /\ dataCfg
  /\ pc = "done" /\ op.cmd = "rollback" /\ op.res = "failed"
  /\ op.newbk # NoName
  /\ NonEmpty(data) /\ dbk # NoBackups

\* C20: when a rollback has failed after moving DeploymentPath aside, the
\* safety backup holds the tree that was live and the chosen backup is as it
\* was; DeploymentPath is what the failed step left (nothing, or a copy of
\* the chosen backup as far as it got), so nothing was moved or copied back;
\* and all the handler did is to try to start the process.
FailedAfterMove ==
  /\ op.cmd = "rollback" /\ op.newbk # NoName
  /\ pc = "r_except" \/ (pc = "done" /\ op.res = "failed")

C20_FailedRollbackKeepsBackups ==
  FailedAfterMove =>
    /\ MovedAside
    /\ BackupTree(Chosen) = ChosenTree
    /\ data = op.preData
    /\ dep.ex => \A p \in Paths : dep.f[p] \in {0, ChosenTree.f[p]}
    /\ op.starts <= 1 + (IF pc = "done" THEN 1 ELSE 0)
    /\ ~mgmt => op.starts = 0

C20_Witness ==
  /\ FailedAfterMove /\ pc = "done"
  /\ mgmt /\ op.starts = 1
  /\ ~dep.ex

\* The answer in reply is that of the latest command, and no command is in
\* flight.
Fresh(cmd) == reply.cmd = cmd /\ reply.at = ops /\ pc = "idle"

\* The time a backup was created, as a rank: that of the command that made
\* it.
MadeRank(e) == MadeBy(dirs, Backup(e.ns, e.name))

\* C21: the list holds every directory named <name>_backup* beside
\* DeploymentPath and, with a configured DataPath, every <data_name>_backup*
\* beside DataPath, each once; a backup that a later command created comes
\* before one that an earlier command created; and the type is server+data for a deployment backup with
\* a ServerData directory, server for one without, server-data for a data
\* backup.
C21_ListNewestFirst ==
  Fresh("list") =>
    LET l == reply.list
    IN /\ {Backup(l[i].ns, l[i].name) : i \in DOMAIN l} =
            {Backup("s", x) : x \in {y \in DOMAIN sbk : y.kind = "ver"}} \cup
            {Backup("d", x) : x \in {y \in DOMAIN dbk : dataCfg /\ y.kind = "ver"}}
       /\ \A i, j \in DOMAIN l : i # j => <<l[i].ns, l[i].name>> # <<l[j].ns, l[j].name>>
       /\ \A i, j \in DOMAIN l : i < j => MadeRank(l[i]) >= MadeRank(l[j])
       /\ \A i \in DOMAIN l :
            l[i].type = IF l[i].ns = "d" THEN "server-data"
                        ELSE IF \E x \in DataNames : sbk[l[i].name].f[Under("ServerData", x)] # 0
                          THEN "server+data" ELSE "server"

\* The backups other than b are what they were.
OthersKept(b) ==
  /\ \A x \in DOMAIN sbk : (b.ns = "s" /\ b.name = x) \/ (x \in DOMAIN sbk' /\ sbk'[x] = sbk[x])
  /\ \A x \in DOMAIN dbk : (b.ns = "d" /\ b.name = x) \/ (x \in DOMAIN dbk' /\ dbk'[x] = dbk[x])
  /\ DOMAIN sbk' \subseteq DOMAIN sbk
  /\ DOMAIN dbk' \subseteq DOMAIN dbk

Has(b) == IF b.ns = "s" THEN b.name \in DOMAIN sbk ELSE b.name \in DOMAIN dbk

\* C22: delete_backup_directory removes an existing directory and returns
\* true, and returns false and changes nothing for a path that is absent; a
\* removal that fails is reported as an error, not as false; and the command
\* that deletes one named backup leaves every other backup, DeploymentPath
\* and DataPath as they were.
C22_DeleteOnlyNamed ==
  [][/\ \A x \in DOMAIN sbk \cup {MissingName} :
          IF x \in DOMAIN sbk
            THEN /\ DeleteReturns(sbk, x)
                 /\ DeleteBackupDirectory(sbk, x) = Remove(sbk, {x})
            ELSE /\ ~DeleteReturns(sbk, x)
                 /\ DeleteBackupDirectory(sbk, x) = sbk
     /\ DeleteNamed(MaxAllOps) =>
          /\ <<dep, data, running, cache>>' = <<dep, data, running, cache>>
          /\ reply'.res \in {"deleted", "error", "notfound"}
          /\ reply'.res = "notfound" => <<sbk, dbk>>' = <<sbk, dbk>>
          /\ reply'.res = "deleted" =>
               \E b \in FindBackupDirectories :
                 /\ ~Has(b)'
                 /\ OthersKept(b)
          /\ reply'.res = "error" =>
               \E b \in FindBackupDirectories :
                 /\ Has(b)'
                 /\ OthersKept(b)]_vars

C22_Witness ==
  /\ Fresh("delete") /\ reply.res = "deleted" /\ reply.count = 1
  /\ sbk # NoBackups /\ SubTree(dep, "ServerData").ex = FALSE
  /\ dbk = NoBackups
  /\ NonEmpty(dep) /\ NonEmpty(data)

\* The files a step removed from the download directory.
Gone == {m \in CacheIds : cache[m].st # "none" /\ cache'[m].st = "none"}

HadContent(t) == t.ex /\ \E p \in Paths : t.f[p] # 0

\* C24: when copy_server_files has returned, backup_created is a name exactly
\* when DeploymentPath existed with content, and data_backup_created is a
\* name exactly when DataPath is configured and existed with content; a name
\* that is returned is a new backup holding the tree that was renamed, and
\* where no name is returned the catalog of that location is as it was.
C24_BackupExactlyWhenNonEmpty ==
  (op.cmd = "update" /\ op.apply = "returned") =>
    /\ (op.bk # NoName) <=> HadContent(op.preDep)
    /\ (op.dbk # NoName) <=> (dataCfg /\ HadContent(op.preData))
    /\ IF op.bk # NoName
         THEN /\ op.bk \notin DOMAIN op.preS
              /\ op.bk \in DOMAIN sbk /\ sbk[op.bk] = op.preDep
              /\ DOMAIN sbk = DOMAIN op.preS \cup {op.bk}
         ELSE sbk = op.preS
    /\ IF op.dbk # NoName
         THEN /\ op.dbk \notin DOMAIN op.preD
              /\ op.dbk \in DOMAIN dbk /\ dbk[op.dbk] = op.preData
              /\ DOMAIN dbk = DOMAIN op.preD \cup {op.dbk}
         ELSE dbk = op.preD

\* An update returned from copy_server_files having renamed a DataPath with
\* content and having left an existing, empty DeploymentPath in place.
C24_Witness ==
  /\ op.cmd = "update" /\ op.apply = "returned"
  /\ dataCfg /\ op.dbk # NoName /\ dbk[op.dbk] = op.preData
  /\ op.preDep = EmptyTree /\ op.bk = NoName

\* ------------------------------------------------------------ C25
TierStep == pc \in {"c_tier_a", "c_tier_b", "c_tier_c"}

\* The paths of DeploymentPath outside its ServerData directory.
OutsideServerData == Paths \ {Under("ServerData", x) : x \in DataNames}

\* C25: a step of a data-restore tier leaves DeploymentPath as it is when
\* DataPath is configured; when it is not, the step leaves DataPath as it is
\* and changes nothing of DeploymentPath outside DeploymentPath/ServerData.
C25_TiersWriteDestinationOnly ==
  [][TierStep =>
       /\ dataCfg => dep' = dep
       /\ ~dataCfg => /\ data' = data
                      /\ dep'.ex = dep.ex
                      /\ \A p \in OutsideServerData : dep'.f[p] = dep.f[p]
       /\ sbk' = sbk /\ dbk' = dbk]_vars

\* With DataPath configured, the tier reading ServerData of the deployment
\* backup has copied it to DataPath and DeploymentPath has no ServerData.
C25_Witness ==
  /\ pc = "c_tier_c" /\ dataCfg /\ "b" \in op.used
  /\ op.bk \in DOMAIN sbk /\ sbk[op.bk].f["ServerData/d"] # 0
  /\ data.f["d"] = sbk[op.bk].f["ServerData/d"]
  /\ \A x \in DataNames : dep.f[Under("ServerData", x)] = 0

\* ------------------------------------------------------------ C26
Handling == pc \in {"u_except", "r_except"}

Trees == <<dep, data, sbk, dbk, cache>>

Refusals == {"invalid", "absent", "misconfigured"}

\* A step in which a command that runs in one step and passed the checks is
\* answered.
Answered(cmds) ==
  /\ reply'.cmd \in cmds /\ reply'.at = ops' /\ ops' # ops
  /\ reply'.res \notin Refusals

\* What the answered command asked of the controller.
Asked == IF reply'.cmd = "call" THEN reply'.status ELSE reply'.cmd

\* C27: a start, stop or status request runs at most one external command,
\* that of TCAdmin when TCAdmin is enabled and else that of the Windows
\* service when that is enabled, and never one of each; with neither enabled
\* stop_server and start_server run no command, return success and leave the
\* process alone, get_server_status returns no_management, and no step of an
\* update or a rollback stops or starts the process.
C27_OneVariant ==
  [][/\ Answered({"start", "stop", "status", "call"}) =>
          /\ Len(reply'.calls) <= 1
          /\ \A i \in DOMAIN reply'.calls :
               reply'.calls[i].tool = (IF cfg.tcadmin THEN "tcadmin" ELSE "sc")
          /\ (cfg.tcadmin /\ Asked # "status") =>
               reply'.calls = <<[tool |-> "tcadmin", command |-> Asked]>>
          /\ (~cfg.tcadmin /\ cfg.service) => Len(reply'.calls) = 1
          /\ (~cfg.tcadmin /\ ~cfg.service) =>
               /\ reply'.calls = <<>>
               /\ running' = running /\ faults' = faults
               /\ reply'.cmd = "call" =>
                    reply'.res = (IF Asked = "status" THEN "no_management" ELSE "ok")
     /\ (pc # "idle" /\ ~cfg.tcadmin /\ ~cfg.service) =>
          /\ running' = running
          /\ op'.starts = 0 /\ ~op'.stopped]_vars

\* With TCAdmin and the Windows service both enabled, a stop command ran the
\* TCAdmin command and nothing else.
C27_Witness ==
  /\ Fresh("stop") /\ cfg.tcadmin /\ cfg.service
  /\ reply.res = "ok" /\ ~running
  /\ reply.calls = <<[tool |-> "tcadmin", command |-> "stop"]>>

\* ------------------------------------------------------------ C28
\* What the answered request returned.
Returned == IF reply'.cmd = "status" THEN reply'.status ELSE reply'.res

\* C28: with the Windows service as the controller, a start or a stop
\* request that sc answers with exit code 0, or with its report that the
\* service is already running (for a start) or has not been started (for a
\* stop), succeeds, and one that sc refuses for another reason raises; a
\* status request returns running for a service that is up and stopped for
\* one that is down, and whatever sc does it returns a status and does not
\* raise.
C28_ServiceRequests ==
  [][(Answered({"start", "stop", "status", "call"}) /\ ~cfg.tcadmin /\ cfg.service) =>
       /\ Asked \in {"start", "stop"} =>
            /\ faults' = faults => Returned = "ok"
            /\ faults' # faults => Returned = "raised" /\ running' = running
            /\ Returned = "ok" => running' = (Asked = "start")
       /\ Asked = "status" =>
            /\ Returned \in {"running", "stopped", "unknown", "not_found", "error"}
            /\ faults' = faults => Returned = (IF running THEN "running" ELSE "stopped")
            /\ running' = running]_vars

\* ------------------------------------------------------------ C29
\* The section of the environment is missing, or it enables a kind of
\* management without the fields that kind needs.
BadSection(c) ==
  \/ ~c.section
  \/ c.tcadmin /\ ~c.tcFields
  \/ c.service /\ ~c.svcName

\* Everything a command can act on: the process, the trees, the backups, the
\* download directory, and the steps of a command in flight.
World == <<running, dep, data, sbk, dbk, cache, dirs, pc, op, faults>>

\* C29: a command that names an environment whose section is missing or
\* incomplete, or that is given a token other than dev and live, is answered
\* with a refusal in one step, and that step leaves the process, every tree,
\* every backup and the download directory as they were and starts no
\* update, rollback, download or delete.
C29_RejectedBeforeEffect ==
  [][/\ (BadSection(cfg) /\ ops' # ops) =>
          /\ reply'.at = ops' /\ reply'.res \in Refusals
          /\ reply'.cmd \in EnvCommands
     /\ (reply'.at = ops' /\ ops' # ops /\ reply'.res \in Refusals) => World' = World
     /\ BadSection(cfg) => World' = World]_vars

\* A rollback named an environment whose section enables the Windows service
\* without a Service_Name: refused, with the backups, the trees and the
\* running process untouched.
C29_Witness ==
  /\ Fresh("rollback") /\ reply.res = "misconfigured"
  /\ cfg.section /\ ~cfg.tcadmin /\ cfg.service /\ ~cfg.svcName
  /\ running /\ op = NoOp /\ sbk # NoBackups /\ dep = Installed1

\* ------------------------------------------------------------ C30
\* The command in flight has stopped the process and has not yet put the
\* new tree in place.
Replacing ==
  /\ op.stopped
  /\ pc \in {"c_bkdep", "c_bkdata", "c_install", "c_tier_a", "c_tier_b", "c_tier_c",
             "c_version", "r_backup", "r_restore"}

\* C30: while an update or a rollback is between its stop of the process
\* and the end of its replacement of DeploymentPath, no other command runs:
\* none is answered, the process is not started, and none reads
\* DeploymentPath.
C30_Serialized ==
  [][Replacing => /\ ops' = ops
                  /\ reply' = reply
                  /\ running' = running]_vars

\* C31: every backup directory that an update or a rollback has made is in
\* the catalog of its environment for as long as it exists, so that it can be
\* chosen as a rollback target or deleted by name, also when the tree that
\* was moved aside had no version.txt.
C31_MadeBackupsListed ==
  /\ \A x \in DOMAIN sbk : Backup("s", x) \in FindBackupDirectories
  /\ dataCfg => \A x \in DOMAIN dbk : Backup("d", x) \in FindBackupDirectories

\* ------------------------------------------------------------ C32
\* The update in flight extracted into a directory that was there before it.
Reused == op.cmd = "update" /\ op.tmp # NoTmp /\ op.reused

\* C32: the directory an update extracts into did not exist before that
\* update made it, and it is removed when the update ends, however it ends:
\* no command in flight, no scratch directory.
C32_ScratchFreshAndRemoved ==
  /\ ~Reused
  /\ pc = "idle" => tmp = {}

\* ------------------------------------------------------------ C33
\* C33: what a rollback has copied into DeploymentPath is a backup of the
\* deployment tree, never a directory the catalog classifies server-data,
\* whatever name the command was given.
C33_RestoresDeploymentBackupsOnly ==
  (op.cmd = "rollback" /\ pc = "r_start") =>
    /\ op.ns = "s"
    /\ Entry(Chosen).type # "server-data"

\* ------------------------------------------------------------ C34
\* The place of the first e in the log of the update in flight, 0 if none.
Pos(e) ==
  IF \E i \in DOMAIN op.log : op.log[i] = e
    THEN CHOOSE i \in DOMAIN op.log :
           op.log[i] = e /\ \A j \in DOMAIN op.log : op.log[j] = e => i <= j
    ELSE 0

\* Whenever b has happened, a happened before it.
Before(a, b) == Pos(b) # 0 => (Pos(a) # 0 /\ Pos(a) < Pos(b))

\* Every e in the log comes after a.
EachAfter(a, e) ==
  \A i \in DOMAIN op.log : op.log[i] = e => (Pos(a) # 0 /\ Pos(a) < i)

\* The update is past its extraction step, which it did not complete.
NotExtracted ==
  /\ op.cmd = "update"
  /\ pc \in {"u_except", "done"}
  /\ Pos("extracted") = 0

Untouched ==
  /\ dep = op.preDep /\ data = op.preData
  /\ sbk = op.preS /\ dbk = op.preD

BroughtDown ==
  /\ op.cmd \in {"update", "rollback"}
  /\ op.stopped \/ (op.preRun /\ ~running)

Acts ==
  \/ <<cache, tmp, dep, data, sbk, dbk, running>>' # <<cache, tmp, dep, data, sbk, dbk,
                                                      running>>
  \/ pc' # pc \/ op' # op
  \/ reply' # reply /\ reply'.calls # <<>>
  \/ reply' # reply /\ reply'.res \notin {"denied", "elsewhere"}

\* When the two checks pass, as the claim states it.
MayUse(g, c) ==
  \/ g.roles = {} /\ g.users = {}
  \/ c.author \in g.users
  \/ c.roles \cap g.roles # {}

RightChannel(g, c) == g.channel = 0 \/ c.channel = g.channel

\* C36: check_permissions passes exactly when no roles and no users are
\* configured, or the author is an allowed user, or holds an allowed role;
\* check_channel passes exactly when no channel is configured or the message
\* comes from that channel; and no command downloads or touches the cache, a
\* tree, a backup or the process unless both pass.
C36_NothingUnlessAllowed ==
  [][/\ CheckPermissions(gate, ctx) <=> MayUse(gate, ctx)
     /\ CheckChannel(gate, ctx) <=> RightChannel(gate, ctx)
     /\ Acts => (MayUse(gate, ctx) /\ RightChannel(gate, ctx))]_vars

\* A message of an author who holds no allowed role and is no allowed user
\* was turned away, in the right channel, with backups at hand.
C36_Witness ==
  /\ Fresh("rollback") /\ reply.res = "denied"
  /\ gate.roles # {} /\ gate.users # {} /\ ctx.roles # {}
  /\ RightChannel(gate, ctx) /\ gate.channel # 0
  /\ sbk # NoBackups

\* ------------------------------------------------------------ C37
\* The step with which an update ends.
UpdateEnds == pc = "done" /\ op.cmd = "update" /\ pc' = "idle"

\* C37: when keep_downloaded_files is false, the archive an update used,
\* downloaded by it or found in the cache, is not in the cache once the
\* update has ended, whether it succeeded or failed; when it is true, every
\* archive that was in the cache before the update is still there after it.
C37_ArchiveGoneUnlessKept ==
  [][UpdateEnds =>
       IF keep
         THEN \A m \in CacheIds : op.preCache[m].st # "none" => cache'[m].st # "none"
         ELSE op.file # 0 => cache'[op.file].st = "none"]_vars

\* ------------------------------------------------------------ C38
\* The directories of the other environment.
Others == {EnvName(i) : i \in DOMAIN OtherNames} \cup
          {EnvBackup(i, 1) : i \in DOMAIN OtherNames}

\* The step leaves the directories of the other environment as they are and
\* shows none of them in a list.
OtherKept ==
  /\ \A x \in Others \cap DOMAIN sbk : x \in DOMAIN sbk' /\ sbk'[x] = sbk[x]
  /\ \A x \in Others \cap DOMAIN dbk : x \in DOMAIN dbk' /\ dbk'[x] = dbk[x]
  /\ reply'.cmd = "list" =>
       \A j \in DOMAIN reply'.list : reply'.list[j].name \notin Others

\* The directory names of the two environments are apart: none of the other
\* environment's directories has a name that begins with the name of this
\* environment's directory followed by "_backup".
BeginsAsBackup(x) ==
  Len(Text(x)) >= 2 /\ SubSeq(Text(x), 1, 2) = <<"<name>", "_backup">>

Apart ==
  /\ \A x \in Others \cap DOMAIN sbk : ~BeginsAsBackup(x)
  /\ \A x \in Others \cap DOMAIN dbk : ~BeginsAsBackup(x)

\* C38 as stated: with distinct paths that are not nested, every step of an
\* update, a rollback, a list or a delete on one environment leaves
\* DeploymentPath, DataPath, version.txt and the backups of the other
\* environment as they were, and lists none of them.
C38_OtherEnvironmentKept == [][OtherKept]_vars

\* C38 amended: the same, for environments whose directory names are apart.
C38_OtherEnvironmentKeptWhenApart == [][Apart => OtherKept]_vars

C38_Witness ==
  /\ Fresh("delete") /\ reply.res = "deleted" /\ reply.count >= 1
  /\ Apart
  /\ Others \cap DOMAIN sbk # {}
  /\ \A x \in Others \cap DOMAIN sbk : x.kind = "env" => sbk[x] = LiveTree
  /\ Listed(sbk) = {} /\ Listed(dbk) = {}
  /\ dataCfg /\ reply.count = 2

\* ------------------------------------------------------------ C39
\* The first scan of a run that finds no locked file after scans that all
\* found locked files, 0 when the run has none.
FirstClean(run, retries) ==
  LET ks == {k \in 1..retries : /\ run[k] = "clean"
                                /\ \A j \in 1..(k - 1) : run[j] = "locked"}
  IN IF ks = {} THEN 0 ELSE CHOOSE k \in ks : TRUE

\* The update has gone on to the replacement of the trees.
GoneOnToReplace == pc = "c_bkdep" \/ \E i \in DOMAIN op.log : op.log[i] = "replace"

\* C39: called by an update, check_file_locks makes at most max_retries
\* scans whatever the scans find and whatever max_retries is, returns true
\* at the first scan that finds no locked file and false otherwise or at a
\* scan that raises, and whatever it returns the update goes on to the
\* replacement of the trees.
C39_LockCheckAdvisory ==
  /\ pc = "u_stop" => \A r \in 0..max_retries : \A run \in ScanRuns(r) :
       LET chk == CheckFileLocks(run, r)
       IN /\ chk.scans <= r
          /\ chk.res <=> FirstClean(run, r) # 0
          /\ chk.res => chk.scans = FirstClean(run, r)
          /\ ~chk.res => \/ chk.scans = r /\ \A k \in 1..r : run[k] = "locked"
                         \/ /\ chk.scans \in 1..r
                            /\ run[chk.scans] = "error"
                            /\ \A j \in 1..(chk.scans - 1) : run[j] = "locked"
  /\ op.lock # "none" =>
       /\ op.scans <= max_retries
       /\ op.lock = "clear" <=> FirstClean(op.run, max_retries) # 0
       /\ GoneOnToReplace

\* An update whose check found the files locked at each of the max_retries
\* scans installed the build all the same.
C39_Witness ==
  /\ pc = "done" /\ op.cmd = "update" /\ op.res = "ok"
  /\ op.lock = "held" /\ op.scans = max_retries
  /\ \A k \in 1..max_retries : op.run[k] = "locked"
  /\ dep.ex /\ dep.f["version.txt"] = op.n

============================================================================
